---------------------------- MODULE Spec2Model ----------------------------
(***************************************************************************)
(* Verification model of the file tools of yeeyeeass-tools.                *)
(*                                                                         *)
(*   Spec      ReadManyFilesToolInvocation.execute                         *)
(*             (src/build/tools/read-many-files.js)                        *)
(*   SpecTool  the read_many_files handler                                 *)
(*             (src/build/tools/read-many-files.tool.js)                   *)
(*   SpecPart  the read_many_files handler (src/unnamed/part_001)          *)
(*   SpecExcludes, SpecCancel, SpecJoin                                    *)
(*             execute with exclude patterns, with cancellation, and its   *)
(*             assembly over many files                                    *)
(*   SpecRead  the read_file handler (src/build/tools/read-file.tool.js)   *)
(*   SpecShell, SpecShellFair                                              *)
(*             the run_shell_command handler (src/unnamed/part_002),       *)
(*             without and with the fairness of its timers and events      *)
(*   SpecWrite the write_file handler (src/unnamed/part_002)               *)
(*   SpecPaging                                                            *)
(*             the pagination of read_file and of web_fetch                *)
(*             (src/src/tools/web-fetch.tool.ts)                           *)
(*                                                                         *)
(* A JavaScript string is a sequence of tokens: one-character strings for  *)
(* the text the code inspects (paths, patterns, file content) and whole    *)
(* literals for the fixed text of templates.                               *)
(***************************************************************************)
EXTENDS Integers, Sequences, FiniteSets, TLC

(***************************************************************************)
(* Strings                                                                 *)
(***************************************************************************)

\* The characters of the paths and patterns, in UTF-16 code unit order.
Alphabet ==
    << "*", ".", "/", "G", "L", "N", "P",
       "a", "b", "d", "e", "f", "g", "l", "m", "n", "o", "p", "s", "w", "x" >>

\* The code unit of a character, as far as comparisons go.
Code(c) == CHOOSE i \in 1..Len(Alphabet) : Alphabet[i] = c

LowerChar(c) ==
    CASE c = "G" -> "g"
      [] c = "L" -> "l"
      [] c = "N" -> "n"
      [] c = "P" -> "p"
      [] OTHER -> c

\* String.prototype.toLowerCase
toLowerCase(s) == [i \in 1..Len(s) |-> LowerChar(s[i])]

\* String.prototype.includes / Array.prototype.includes on token sequences
includes(s, t) ==
    \E i \in 0..(Len(s) - Len(t)) : SubSeq(s, i + 1, i + Len(t)) = t

\* The elements of an array
Range(arr) == {arr[i] : i \in 1..Len(arr)}

\* Array.prototype.includes: membership of an element
arrayIncludes(arr, x) == \E i \in 1..Len(arr) : arr[i] = x

\* The order Array.prototype.sort() uses without a comparator: code units.
StrLess(a, b) ==
    \E k \in 1..(Len(a) + 1) :
        /\ k <= Len(b)
        /\ \A j \in 1..(k - 1) : a[j] = b[j]
        /\ \/ k = Len(a) + 1
           \/ Code(a[k]) < Code(b[k])

\* Array.prototype.sort() of an array of distinct strings
sort(arr) == SortSeq(arr, StrLess)

(***************************************************************************)
(* node:path (POSIX)                                                       *)
(***************************************************************************)

RECURSIVE Segments(_, _)
\* The non-empty segments of a path, cur being the segment read so far.
Segments(p, cur) ==
    IF p = << >> THEN (IF cur = << >> THEN << >> ELSE << cur >>)
    ELSE IF Head(p) = "/"
         THEN (IF cur = << >> THEN << >> ELSE << cur >>) \o Segments(Tail(p), << >>)
         ELSE Segments(Tail(p), Append(cur, Head(p)))

RECURSIVE JoinSegments(_)
JoinSegments(segs) ==
    IF segs = << >> THEN << >>
    ELSE IF Len(segs) = 1 THEN segs[1]
    ELSE segs[1] \o << "/" >> \o JoinSegments(Tail(segs))

DotDot == << ".", "." >>

RECURSIVE Normalize(_, _)
\* Resolves "." and ".." segments; acc holds the segments kept so far.
Normalize(segs, acc) ==
    IF segs = << >> THEN acc
    ELSE IF Head(segs) = << "." >> THEN Normalize(Tail(segs), acc)
    ELSE IF Head(segs) = DotDot
         THEN Normalize(Tail(segs),
                        IF acc = << >> THEN acc ELSE SubSeq(acc, 1, Len(acc) - 1))
         ELSE Normalize(Tail(segs), Append(acc, Head(segs)))

\* path.resolve(from, to) for an absolute from and a relative to
resolve(from, to) ==
    << "/" >> \o JoinSegments(Normalize(Segments(from, << >>) \o Segments(to, << >>), << >>))

\* The length of the longest common prefix of two segment lists
CommonLen(a, b) ==
    CHOOSE k \in 0..Len(a) :
        /\ k <= Len(b)
        /\ \A j \in 1..k : a[j] = b[j]
        /\ (k < Len(a) /\ k < Len(b)) => a[k + 1] # b[k + 1]

\* path.relative(from, to) for two absolute paths
relative(from, to) ==
    LET f == Normalize(Segments(from, << >>), << >>)
        t == Normalize(Segments(to, << >>), << >>)
        k == CommonLen(f, t)
    IN  JoinSegments([i \in 1..(Len(f) - k) |-> DotDot] \o SubSeq(t, k + 1, Len(t)))

\* The last segment of a path
LastSegment(p) ==
    LET s == Segments(p, << >>) IN IF s = << >> THEN << >> ELSE s[Len(s)]

\* path.extname(p): from the last "." of the last segment, unless that "." is
\* the segment's first character
extname(p) ==
    LET b == LastSegment(p)
        dots == {i \in 2..Len(b) : b[i] = "."}
    IN  IF dots = {} THEN << >>
        ELSE SubSeq(b, CHOOSE i \in dots : \A j \in dots : j <= i, Len(b))

\* path.basename(p, ext): the last segment, without ext when it ends with ext
\* (compared as written) and is more than ext
basename(p, ext) ==
    LET b == LastSegment(p) IN
    IF /\ ext # << >>
       /\ Len(b) > Len(ext)
       /\ SubSeq(b, Len(b) - Len(ext) + 1, Len(b)) = ext
    THEN SubSeq(b, 1, Len(b) - Len(ext))
    ELSE b


(***************************************************************************)
(* The environment of ReadManyFilesToolInvocation.execute: the workspace,  *)
(* the file system and the collaborators the code calls.                   *)
(***************************************************************************)

RootW == << "/", "w" >>
RootS == << "/", "w", "/", "s" >>

FileLogo == << "/", "w", "/", "L", "o", "g", "o", ".", "P", "N", "G" >>
FileA    == << "/", "w", "/", "a", ".", "m", "d" >>
FileB    == << "/", "w", "/", "s", "/", "b", ".", "m", "d" >>
FileG    == << "/", "w", "/", "g", ".", "m", "d" >>
FileM    == << "/", "w", "/", "m", ".", "p", "d", "f" >>
\* A file of a directory the default excludes name
FileN    == << "/", "w", "/", "n", "/", "d", ".", "m", "d" >>
\* A file outside every workspace root whose path starts like a root's.
FileE    == << "/", "w", "x", "/", "e", ".", "m", "d" >>

\* config.getWorkspaceContext().getDirectories()
workspaceDirs == << RootW, RootS >>

\* config.getTargetDir()
targetDir == RootW

\* What the matcher can find from each root, in the order it walks the tree;
\* FileE is reached through a symbolic link.
MatcherListing(dir) ==
    IF dir = RootW THEN << FileLogo, FileG, FileE, FileN, FileB, FileA, FileM >>
    ELSE << FileB, FileE >>

\* config.getFileExclusions().getReadManyFilesExcludes()
ConfiguredExcludes == << << "n", "/", "*", "*" >> >>

\* getDefaultExcludes(config) (lines 23-25)
getDefaultExcludes == ConfiguredExcludes

\* Whether the matcher's ignore pattern names the path p, relative to the
\* root searched: a pattern "d/**" names everything below the directory d,
\* a pattern without wildcard names the path equal to it
IgnorePatternMatches(pattern, p) ==
    IF Len(pattern) >= 3 /\ SubSeq(pattern, Len(pattern) - 2, Len(pattern)) = << "/", "*", "*" >>
    THEN /\ Len(p) >= Len(pattern) - 2
         /\ SubSeq(p, 1, Len(pattern) - 2) = SubSeq(pattern, 1, Len(pattern) - 2)
    ELSE p = pattern

\* Whether the matcher called for the root dir with the ignore list leaves
\* out the file
IsIgnored(dir, ignore, filePath) ==
    \E k \in 1..Len(ignore) : IgnorePatternMatches(ignore[k], relative(dir, filePath))

RECURSIVE WithoutIgnored(_, _, _)
\* The files of a listing the ignore list does not name
WithoutIgnored(dir, ignore, listing) ==
    IF listing = << >> THEN << >>
    ELSE (IF IsIgnored(dir, ignore, Head(listing)) THEN << >> ELSE << Head(listing) >>)
         \o WithoutIgnored(dir, ignore, Tail(listing))

\* WorkspaceContext.isPathWithinWorkspace: the path is a root or lies below one
isPathWithinWorkspace(p) ==
    \E d \in 1..Len(workspaceDirs) :
        LET root == workspaceDirs[d] IN
        \/ p = root
        \/ /\ Len(p) > Len(root)
           /\ SubSeq(p, 1, Len(root) + 1) = root \o << "/" >>

\* The relative paths .gitignore and .geminiignore match
GitIgnoredPaths ==
    { relative(targetDir, FileG), relative(targetDir, FileE) }

GeminiIgnoredPaths ==
    { relative(targetDir, FileG), relative(targetDir, FileM) }

RECURSIVE filterFiles(_, _, _)
\* FileDiscoveryService.filterFiles(relativePaths, options): the paths kept
filterFiles(paths, respectGitIgnore, respectGeminiIgnore) ==
    IF paths = << >> THEN << >>
    ELSE LET p == Head(paths)
             dropped == \/ respectGitIgnore /\ p \in GitIgnoredPaths
                        \/ respectGeminiIgnore /\ p \in GeminiIgnoredPaths
         IN  (IF dropped THEN << >> ELSE << p >>)
             \o filterFiles(Tail(paths), respectGitIgnore, respectGeminiIgnore)

\* detectFileType(filePath) when it does not throw
detectFileType(filePath) ==
    CASE filePath = FileLogo -> "image"
      [] filePath = FileM -> "pdf"
      [] OTHER -> "text"

\* Whether processSingleFileContent cut the text of the file
IsLongFile(filePath) == filePath = FileB

\* The text processSingleFileContent returns for a text file
FileText(filePath) == << "<text of " >> \o LastSegment(filePath) \o << ">" >>

\* The base64 data processSingleFileContent returns for an image or a pdf
FileData(filePath) == << "<base64 of " >> \o LastSegment(filePath) \o << ">" >>

\* The messages of the errors the file system raises
ReadErrorMessage == << "EACCES: permission denied" >>
ThrownMessage == << "EIO: i/o error" >>
GlobErrorMessage == << "The operation was aborted" >>


(***************************************************************************)
(* Bounds                                                                  *)
(***************************************************************************)

\* The most distinct paths the matcher returns over all roots in one call.
MaxEntries == 3

(***************************************************************************)
(* ReadManyFilesToolInvocation.execute: state                              *)
(***************************************************************************)

VARIABLES
    inputPatterns,          \* this.params.paths
    include,                \* this.params.include
    exclude,                \* this.params.exclude
    useDefaultExcludes,     \* this.params.useDefaultExcludes
    aborted,                \* signal.aborted
    fileFilteringOptions,   \* respectGitIgnore, respectGeminiIgnore
    pc,                     \* "init", "glob", "fetch", "done"
    dirIndex,               \* the root whose matcher call is awaited
    allEntries,             \* the Set of matches, in insertion order
    filesToConsider,        \* the Set of candidates, in insertion order
    skippedFiles,
    gitIgnoredCount,
    geminiIgnoredCount,
    sortedFiles,
    taskPc,                 \* per candidate: "detect", "read", "settled"
    results,                \* what Promise.allSettled collects, per candidate
    processedFilesRelativePaths,
    contentParts,
    returned,               \* the value execute resolves to
    globCalls,              \* the roots the matcher was called for, in order
    globIgnores,            \* the ignore list of each of these calls
    matched,                \* the arrays the matcher resolved to, in order
    globFailed,             \* a matcher call rejected
    filterCalls,            \* the relative paths handed to filterFiles
    detectCalls,            \* the paths handed to detectFileType
    readCalls,              \* the paths handed to processSingleFileContent
    settledOutOfOrder       \* a task settled before one earlier in sortedFiles

execVars ==
    << inputPatterns, include, exclude, useDefaultExcludes, aborted,
       fileFilteringOptions, pc, dirIndex, allEntries,
       filesToConsider, skippedFiles, gitIgnoredCount, geminiIgnoredCount,
       sortedFiles, taskPc, results, processedFilesRelativePaths, contentParts,
       returned, globCalls, globIgnores, matched, globFailed, filterCalls,
       detectCalls, readCalls, settledOutOfOrder >>

\* The patterns of a call: paths, and include
PatternChoices ==
    { [paths |-> << << "*", ".", "m", "d" >> >>,
       include |-> << << "*", ".", "p", "n", "g" >> >>],
      [paths |-> << << "*", ".", "P", "N", "G" >> >>,
       include |-> << >>],
      [paths |-> << << "s", "/", "*" >>, << "L", "o", "g", "o", "*" >> >>,
       include |-> << >>] }

DEFAULT_OUTPUT_TERMINATOR == "\n--- End of content ---"

SecurityReasonText ==
    "Security: Glob library returned path outside workspace. Path: "

AssetReasonText ==
    "asset file (image/pdf) was not explicitly requested by name or extension"

NoFilesText == "No files matching the criteria were found or all were skipped."

\* The result of a read that has not been made
NoReadResult ==
    [llmContentIsString |-> TRUE, llmContent |-> << >>,
     isTruncated |-> FALSE, error |-> << >>]

\* The slot of a task that has not settled
Pending ==
    [status |-> "pending", success |-> FALSE, filePath |-> << >>,
     relativePathForDisplay |-> << >>, reason |-> << >>,
     fileReadResult |-> NoReadResult]

\* What execute has returned before it returns
NotReturned ==
    [llmContentIsArray |-> FALSE, llmContent |-> << >>,
     returnDisplay |-> << >>, errorType |-> "none"]

\* execute is entered with the given parameters (lines 69-83).
ExecEntry(c, excludes, options) ==
    /\ inputPatterns = c.paths
    /\ include = c.include
    /\ exclude = excludes.exclude
    /\ useDefaultExcludes = excludes.useDefaultExcludes
    /\ aborted = FALSE
    /\ fileFilteringOptions = options
    /\ pc = "init"
    /\ dirIndex = 1
    /\ allEntries = << >>
    /\ filesToConsider = << >>
    /\ skippedFiles = << >>
    /\ gitIgnoredCount = 0
    /\ geminiIgnoredCount = 0
    /\ sortedFiles = << >>
    /\ taskPc = << >>
    /\ results = << >>
    /\ processedFilesRelativePaths = << >>
    /\ contentParts = << >>
    /\ returned = NotReturned
    /\ globCalls = << >>
    /\ globIgnores = << >>
    /\ matched = << >>
    /\ globFailed = FALSE
    /\ filterCalls = {}
    /\ detectCalls = {}
    /\ readCalls = {}
    /\ settledOutOfOrder = FALSE

\* The values of respectGitIgnore and respectGeminiIgnore of a call
FilteringChoices == [respectGitIgnore : BOOLEAN, respectGeminiIgnore : BOOLEAN]

\* A call that leaves exclude and useDefaultExcludes to their defaults
NoExcludes == [exclude |-> << >>, useDefaultExcludes |-> TRUE]

InitExec ==
    \E c \in PatternChoices : \E options \in FilteringChoices :
        ExecEntry(c, NoExcludes, options)

\* The values of exclude and useDefaultExcludes of a call
ExcludeChoices ==
    { [exclude |-> e, useDefaultExcludes |-> u] :
        e \in { << >>, << << "g", ".", "m", "d" >> >> }, u \in BOOLEAN }

\* The calls that ask for the markdown files, with every choice of excludes
InitExcludes ==
    \E c \in {pc0 \in PatternChoices : pc0.include # << >>} :
        \E excludes \in ExcludeChoices : \E options \in FilteringChoices :
            ExecEntry(c, excludes, options)

(***************************************************************************)
(* execute: discovery (lines 88-187)                                       *)
(***************************************************************************)

RECURSIVE SubList(_, _, _)
\* The elements of arr at the indexes in S, from index i on, in order
SubList(arr, S, i) ==
    IF i > Len(arr) THEN << >>
    ELSE (IF i \in S THEN << arr[i] >> ELSE << >>) \o SubList(arr, S, i + 1)

\* The arrays the matcher may resolve to for a root
GlobResults(dir, ignore) ==
    LET listing == WithoutIgnored(dir, ignore, MatcherListing(dir))
    IN  { SubList(listing, S, 1) : S \in SUBSET (1..Len(listing)) }

\* effectiveExcludes with the caller's patterns in place of the defaults
\* rather than after them.
effectiveExcludesCallerReplaces(excludes, useDefaults) ==
    IF useDefaults /\ excludes = << >> THEN getDefaultExcludes ELSE excludes

\* effectiveExcludes (lines 84-86)
effectiveExcludes(excludes, useDefaults) ==
    IF useDefaults THEN getDefaultExcludes \o excludes ELSE excludes

\* AddAll without the Set: every entry is appended, seen before or not.
AddAllNoDedupe(set, entriesInDir) == set \o entriesInDir

RECURSIVE AddAll(_, _)
\* for (const entry of entriesInDir) allEntries.add(entry)
AddAll(set, entriesInDir) ==
    IF entriesInDir = << >> THEN set
    ELSE AddAll(IF arrayIncludes(set, Head(entriesInDir)) THEN set
                ELSE Append(set, Head(entriesInDir)),
                Tail(entriesInDir))

RECURSIVE ToRelative(_)
\* entries.map((p) => path.relative(targetDir, p))
ToRelative(entries) ==
    IF entries = << >> THEN << >>
    ELSE << relative(targetDir, Head(entries)) >> \o ToRelative(Tail(entries))

RECURSIVE ToAbsolute(_)
\* .map((p) => path.resolve(targetDir, p))
ToAbsolute(paths) ==
    IF paths = << >> THEN << >>
    ELSE << resolve(targetDir, Head(paths)) >> \o ToAbsolute(Tail(paths))

\* gitFilteredEntries (lines 118-125)
GitFilteredEntries(entries, options) ==
    IF options.respectGitIgnore
    THEN ToAbsolute(filterFiles(ToRelative(entries), TRUE, FALSE))
    ELSE entries

\* finalFilteredEntries (lines 127-134)
FinalFilteredEntries(gitFilteredEntries, options) ==
    IF options.respectGeminiIgnore
    THEN ToAbsolute(filterFiles(ToRelative(gitFilteredEntries), FALSE, TRUE))
    ELSE gitFilteredEntries

\* The paths the two filterFiles calls are handed
FilterArguments(entries, options) ==
    (IF options.respectGitIgnore
     THEN {relative(targetDir, entries[i]) : i \in 1..Len(entries)} ELSE {})
    \cup
    (IF options.respectGeminiIgnore
     THEN LET g == GitFilteredEntries(entries, options)
          IN  {relative(targetDir, g[i]) : i \in 1..Len(g)}
     ELSE {})

\* OutsideWorkspace with the security check left out.
OutsideWorkspaceNever(absoluteFilePath) == FALSE

\* The security check of line 139: the entry is outside the workspace
OutsideWorkspace(absoluteFilePath) == ~isPathWithinWorkspace(absoluteFilePath)

\* The skip record of lines 142-145
SecuritySkip(absoluteFilePath) ==
    [path |-> absoluteFilePath,
     reason |-> << SecurityReasonText >> \o absoluteFilePath]

\* EntryFate with the check of line 155 made before the check of line 149.
EntryFateGeminiFirst(absoluteFilePath, options, gitFilteredEntries, finalFilteredEntries) ==
    IF OutsideWorkspace(absoluteFilePath) THEN "security"
    ELSE IF /\ options.respectGeminiIgnore
            /\ ~arrayIncludes(finalFilteredEntries, absoluteFilePath) THEN "gemini"
    ELSE IF /\ options.respectGitIgnore
            /\ ~arrayIncludes(gitFilteredEntries, absoluteFilePath) THEN "git"
    ELSE "consider"

\* EntryFate applying both ignore layers whatever the options say.
EntryFateIgnoresOptions(absoluteFilePath, options, gitFilteredEntries, finalFilteredEntries) ==
    IF OutsideWorkspace(absoluteFilePath) THEN "security"
    ELSE IF relative(targetDir, absoluteFilePath) \in GitIgnoredPaths THEN "git"
    ELSE IF relative(targetDir, absoluteFilePath) \in GeminiIgnoredPaths THEN "gemini"
    ELSE "consider"

\* What the loop of lines 137-161 does with one entry
EntryFate(absoluteFilePath, options, gitFilteredEntries, finalFilteredEntries) ==
    IF OutsideWorkspace(absoluteFilePath) THEN "security"
    ELSE IF /\ options.respectGitIgnore
            /\ ~arrayIncludes(gitFilteredEntries, absoluteFilePath) THEN "git"
    ELSE IF /\ options.respectGeminiIgnore
            /\ ~arrayIncludes(finalFilteredEntries, absoluteFilePath) THEN "gemini"
    ELSE "consider"

RECURSIVE ConsiderEntriesNoContinue(_, _, _, _, _)
\* ConsiderEntries without the continue of line 146: an entry outside the
\* workspace gets its skip record and then goes through the ignore checks.
ConsiderEntriesNoContinue(entries, options, gitFilteredEntries, finalFilteredEntries, acc) ==
    IF entries = << >> THEN acc
    ELSE LET e == Head(entries)
             noted == IF OutsideWorkspace(e)
                      THEN [acc EXCEPT !.skippedFiles = Append(@, SecuritySkip(e))]
                      ELSE acc
             next ==
                IF /\ options.respectGitIgnore
                   /\ ~arrayIncludes(gitFilteredEntries, e)
                THEN [noted EXCEPT !.gitIgnoredCount = @ + 1]
                ELSE IF /\ options.respectGeminiIgnore
                        /\ ~arrayIncludes(finalFilteredEntries, e)
                THEN [noted EXCEPT !.geminiIgnoredCount = @ + 1]
                ELSE [noted EXCEPT !.filesToConsider =
                         IF arrayIncludes(@, e) THEN @ ELSE Append(@, e)]
         IN  ConsiderEntriesNoContinue(Tail(entries), options, gitFilteredEntries,
                                       finalFilteredEntries, next)

RECURSIVE ConsiderEntries(_, _, _, _, _)
\* The loop of lines 137-161 over the entries left, from the state acc
ConsiderEntries(entries, options, gitFilteredEntries, finalFilteredEntries, acc) ==
    IF entries = << >> THEN acc
    ELSE LET e == Head(entries)
             fate == EntryFate(e, options, gitFilteredEntries, finalFilteredEntries)
             next ==
                CASE fate = "security" ->
                        [acc EXCEPT !.skippedFiles = Append(@, SecuritySkip(e))]
                  [] fate = "git" ->
                        [acc EXCEPT !.gitIgnoredCount = @ + 1]
                  [] fate = "gemini" ->
                        [acc EXCEPT !.geminiIgnoredCount = @ + 1]
                  [] OTHER ->
                        [acc EXCEPT !.filesToConsider =
                            IF arrayIncludes(@, e) THEN @ ELSE Append(@, e)]
         IN  ConsiderEntries(Tail(entries), options, gitFilteredEntries,
                             finalFilteredEntries, next)

\* The record of lines 164-167 and 171-174 for a count of ignored files
CountSkip(count, reason) ==
    IF count > 0
    THEN << [path |-> << ToString(count), " file(s)" >>, reason |-> << reason >>] >>
    ELSE << >>

\* Lines 117-175: what the entries become
Discovery(entries, options) ==
    LET git == GitFilteredEntries(entries, options)
        final == FinalFilteredEntries(git, options)
        loop == ConsiderEntries(entries, options, git, final,
                    [skippedFiles |-> << >>, gitIgnoredCount |-> 0,
                     geminiIgnoredCount |-> 0, filesToConsider |-> << >>])
    IN  [loop EXCEPT !.skippedFiles =
            @ \o CountSkip(loop.gitIgnoredCount, "git ignored")
              \o CountSkip(loop.geminiIgnoredCount, "gemini ignored")]

\* SortedFiles without the sort: the candidates in the matcher's order.
SortedFilesUnsorted(candidates) == candidates

\* Array.from(filesToConsider).sort() (line 188)
SortedFiles(candidates) == sort(candidates)


\* The backtick character of the display templates
Tick == "BACKTICK"

\* The result returned on a failed search (lines 177-187)
SearchError(message) ==
    [llmContentIsArray |-> FALSE,
     llmContent |->
        << [isString |-> TRUE,
            text |-> << "Error during file search: " >> \o message] >>,
     returnDisplay |->
        << "## File Search Error", "\n", "\n",
           "An error occurred while searching for files:", "\n",
           Tick, Tick, Tick, "\n" >>
        \o message \o << "\n", Tick, Tick, Tick >>,
     errorType |-> "READ_MANY_FILES_SEARCH_ERROR"]

\* execute is called: the patterns are prepared and the matcher is called for
\* the first root (lines 70-104).
Execute ==
    /\ pc = "init"
    /\ pc' = "glob"
    /\ globCalls' = << workspaceDirs[1] >>
    /\ globIgnores' = << effectiveExcludes(exclude, useDefaultExcludes) >>
    /\ UNCHANGED << matched, globFailed, inputPatterns, include, exclude, useDefaultExcludes, aborted, fileFilteringOptions, dirIndex,
                    allEntries, filesToConsider, skippedFiles, gitIgnoredCount,
                    geminiIgnoredCount, sortedFiles, taskPc, results,
                    processedFilesRelativePaths, contentParts, returned,
                    filterCalls, detectCalls, readCalls, settledOutOfOrder >>

\* GlobRejects with the rejection caught inside the loop and the call made
\* again.
GlobRejectsRetries ==
    /\ pc = "glob"
    /\ globFailed' = TRUE
    /\ globCalls' = Append(globCalls, workspaceDirs[dirIndex])
    /\ globIgnores' = Append(globIgnores, effectiveExcludes(exclude, useDefaultExcludes))
    /\ UNCHANGED << matched, inputPatterns, include, exclude, useDefaultExcludes, aborted, fileFilteringOptions, pc,
                    dirIndex, allEntries, filesToConsider, skippedFiles,
                    gitIgnoredCount, geminiIgnoredCount, sortedFiles, taskPc,
                    results, processedFilesRelativePaths, contentParts,
                    returned, filterCalls, detectCalls, readCalls,
                    settledOutOfOrder >>

\* The awaited matcher call rejects (an I/O error, an aborted signal): the
\* catch of line 177 returns the error result.
GlobRejects ==
    /\ pc = "glob"
    /\ pc' = "done"
    /\ returned' = SearchError(GlobErrorMessage)
    /\ globFailed' = TRUE
    /\ UNCHANGED << matched, inputPatterns, include, exclude, useDefaultExcludes, aborted, fileFilteringOptions, dirIndex,
                    allEntries, filesToConsider, skippedFiles, gitIgnoredCount,
                    geminiIgnoredCount, sortedFiles, taskPc, results,
                    processedFilesRelativePaths, contentParts, globCalls, globIgnores,
                    filterCalls, detectCalls, readCalls, settledOutOfOrder >>

\* The matcher call of a root that is not the last resolves: its entries are
\* added and the matcher is called for the next root (lines 91-116).
GlobResolves ==
    /\ pc = "glob"
    /\ dirIndex < Len(workspaceDirs)
    /\ \E entriesInDir \in GlobResults(workspaceDirs[dirIndex], globIgnores[dirIndex]) :
          /\ Len(AddAll(allEntries, entriesInDir)) <= MaxEntries
          /\ allEntries' = AddAll(allEntries, entriesInDir)
          /\ matched' = Append(matched, entriesInDir)
    /\ dirIndex' = dirIndex + 1
    /\ globCalls' = Append(globCalls, workspaceDirs[dirIndex + 1])
    /\ globIgnores' = Append(globIgnores, effectiveExcludes(exclude, useDefaultExcludes))
    /\ UNCHANGED << globFailed, inputPatterns, include, exclude, useDefaultExcludes, aborted, fileFilteringOptions, pc,
                    filesToConsider, skippedFiles, gitIgnoredCount,
                    geminiIgnoredCount, sortedFiles, taskPc, results,
                    processedFilesRelativePaths, contentParts, returned,
                    filterCalls, detectCalls, readCalls, settledOutOfOrder >>

\* The matcher call of the last root resolves: the entries are filtered and
\* checked, the candidates sorted, and one task per candidate is started, each
\* running up to its first await, the call of detectFileType (lines 113-194).
GlobResolvesLast ==
    /\ pc = "glob"
    /\ dirIndex = Len(workspaceDirs)
    /\ \E entriesInDir \in GlobResults(workspaceDirs[dirIndex], globIgnores[dirIndex]) :
          LET entries == AddAll(allEntries, entriesInDir)
              found == Discovery(entries, fileFilteringOptions)
              sorted == SortedFiles(found.filesToConsider)
          IN  /\ Len(entries) <= MaxEntries
              /\ allEntries' = entries
              /\ matched' = Append(matched, entriesInDir)
              /\ filterCalls' = FilterArguments(entries, fileFilteringOptions)
              /\ filesToConsider' = found.filesToConsider
              /\ skippedFiles' = found.skippedFiles
              /\ gitIgnoredCount' = found.gitIgnoredCount
              /\ geminiIgnoredCount' = found.geminiIgnoredCount
              /\ sortedFiles' = sorted
              /\ taskPc' = [i \in 1..Len(sorted) |-> "detect"]
              /\ results' = [i \in 1..Len(sorted) |-> Pending]
              /\ detectCalls' = {sorted[i] : i \in 1..Len(sorted)}
    /\ pc' = "fetch"
    /\ UNCHANGED << globFailed, inputPatterns, include, exclude, useDefaultExcludes, aborted, fileFilteringOptions, dirIndex,
                    processedFilesRelativePaths, contentParts, returned,
                    globCalls, globIgnores, readCalls, settledOutOfOrder >>

\* The caller's cancellation signal fires while execute awaits the matcher or
\* the per-file tasks (the signal of line 69, handed to glob at line 111).
Abort ==
    /\ pc \in {"glob", "fetch"}
    /\ ~aborted
    /\ aborted' = TRUE
    /\ UNCHANGED << inputPatterns, include, exclude, useDefaultExcludes,
                    fileFilteringOptions, pc, dirIndex, allEntries,
                    filesToConsider, skippedFiles, gitIgnoredCount,
                    geminiIgnoredCount, sortedFiles, taskPc, results,
                    processedFilesRelativePaths, contentParts, returned,
                    globCalls, globIgnores, matched, globFailed, filterCalls,
                    detectCalls, readCalls, settledOutOfOrder >>

(***************************************************************************)
(* execute: the per-file tasks (lines 189-238)                             *)
(***************************************************************************)

\* relativePathForDisplay (lines 191-193)
RelativePathForDisplay(filePath) == relative(targetDir, filePath)

\* requestedExplicitly looking at the include patterns as well as at paths.
requestedExplicitlyAnyPattern(filePath, patterns) ==
    LET fileExtension == toLowerCase(extname(filePath))
        fileNameWithoutExtension == basename(filePath, fileExtension)
        all == patterns \o include
    IN  \E i \in 1..Len(all) :
            \/ includes(toLowerCase(all[i]), fileExtension)
            \/ includes(all[i], fileNameWithoutExtension)

\* requestedExplicitly without the toLowerCase of the pattern.
requestedExplicitlyCaseSensitive(filePath, patterns) ==
    LET fileExtension == toLowerCase(extname(filePath))
        fileNameWithoutExtension == basename(filePath, fileExtension)
    IN  \E i \in 1..Len(patterns) :
            \/ includes(patterns[i], fileExtension)
            \/ includes(patterns[i], fileNameWithoutExtension)

\* requestedExplicitly (lines 196-199)
requestedExplicitly(filePath, patterns) ==
    LET fileExtension == toLowerCase(extname(filePath))
        fileNameWithoutExtension == basename(filePath, fileExtension)
    IN  \E i \in 1..Len(patterns) :
            \/ includes(toLowerCase(patterns[i]), fileExtension)
            \/ includes(patterns[i], fileNameWithoutExtension)

\* The test of lines 195-200: an image or pdf no pattern names
IsUnrequestedAsset(filePath, patterns) ==
    /\ detectFileType(filePath) \in {"image", "pdf"}
    /\ ~requestedExplicitly(filePath, patterns)

\* A task's value for a file it skips (lines 201-206, 212-217, 230-235)
Failure(filePath, reason) ==
    [status |-> "fulfilled", success |-> FALSE, filePath |-> filePath,
     relativePathForDisplay |-> RelativePathForDisplay(filePath),
     reason |-> reason, fileReadResult |-> NoReadResult]

\* A task's value for a file it read (lines 219-224)
Success(filePath, fileReadResult) ==
    [status |-> "fulfilled", success |-> TRUE, filePath |-> filePath,
     relativePathForDisplay |-> RelativePathForDisplay(filePath),
     reason |-> << >>, fileReadResult |-> fileReadResult]

\* What processSingleFileContent resolves to for a file it can read
ReadResult(filePath) ==
    IF detectFileType(filePath) \in {"image", "pdf"}
    THEN [llmContentIsString |-> FALSE, llmContent |-> FileData(filePath),
          isTruncated |-> FALSE, error |-> << >>]
    ELSE [llmContentIsString |-> TRUE, llmContent |-> FileText(filePath),
          isTruncated |-> IsLongFile(filePath), error |-> << >>]

\* What processSingleFileContent resolves to for a file it cannot read
ReadFailure ==
    [llmContentIsString |-> TRUE, llmContent |-> ReadErrorMessage,
     isTruncated |-> FALSE, error |-> ReadErrorMessage]

\* SettleResult collecting the values in the order the tasks settle: the
\* value goes to the first index still pending.
SettleResultInCompletionOrder(collected, i, value) ==
    LET free == CHOOSE k \in 1..Len(collected) :
                    /\ collected[k].status = "pending"
                    /\ \A j \in 1..(k - 1) : collected[j].status # "pending"
    IN  [collected EXCEPT ![free] = value]

\* Promise.allSettled keeps the value of task i at index i (line 238)
SettleResult(collected, i, value) == [collected EXCEPT ![i] = value]

\* Task i settles with value.
Settle(i, value) ==
    /\ results' = SettleResult(results, i, value)
    /\ taskPc' = [taskPc EXCEPT ![i] = "settled"]
    /\ settledOutOfOrder' =
          (settledOutOfOrder \/ \E j \in 1..(i - 1) : taskPc[j] # "settled")

\* detectFileType throws: the catch of line 226 makes the task's value.
DetectThrows ==
    /\ pc = "fetch"
    /\ \E i \in 1..Len(sortedFiles) :
          /\ taskPc[i] = "detect"
          /\ Settle(i, Failure(sortedFiles[i],
                               << "Unexpected error: " >> \o ThrownMessage))
    /\ UNCHANGED << matched, globFailed, inputPatterns, include, exclude, useDefaultExcludes, aborted, fileFilteringOptions, pc, dirIndex,
                    allEntries, filesToConsider, skippedFiles, gitIgnoredCount,
                    geminiIgnoredCount, sortedFiles,
                    processedFilesRelativePaths, contentParts, returned,
                    globCalls, globIgnores, filterCalls, detectCalls, readCalls >>

\* detectFileType says image or pdf and no pattern names the file: the task
\* returns without reading it (lines 195-207).
AssetNotRequested ==
    /\ pc = "fetch"
    /\ \E i \in 1..Len(sortedFiles) :
          /\ taskPc[i] = "detect"
          /\ IsUnrequestedAsset(sortedFiles[i], inputPatterns)
          /\ Settle(i, Failure(sortedFiles[i], << AssetReasonText >>))
    /\ UNCHANGED << matched, globFailed, inputPatterns, include, exclude, useDefaultExcludes, aborted, fileFilteringOptions, pc, dirIndex,
                    allEntries, filesToConsider, skippedFiles, gitIgnoredCount,
                    geminiIgnoredCount, sortedFiles,
                    processedFilesRelativePaths, contentParts, returned,
                    globCalls, globIgnores, filterCalls, detectCalls, readCalls >>

\* detectFileType resolves and the file is to be read: the task calls
\* processSingleFileContent and awaits it (lines 194-210).
DetectThenRead ==
    /\ pc = "fetch"
    /\ \E i \in 1..Len(sortedFiles) :
          /\ taskPc[i] = "detect"
          /\ ~IsUnrequestedAsset(sortedFiles[i], inputPatterns)
          /\ taskPc' = [taskPc EXCEPT ![i] = "read"]
          /\ readCalls' = readCalls \cup {sortedFiles[i]}
    /\ UNCHANGED << matched, globFailed, inputPatterns, include, exclude, useDefaultExcludes, aborted, fileFilteringOptions, pc, dirIndex,
                    allEntries, filesToConsider, skippedFiles, gitIgnoredCount,
                    geminiIgnoredCount, sortedFiles, results,
                    processedFilesRelativePaths, contentParts, returned,
                    globCalls, globIgnores, filterCalls, detectCalls, settledOutOfOrder >>

\* processSingleFileContent resolves with an error (lines 211-218).
ReadReturnsError ==
    /\ pc = "fetch"
    /\ \E i \in 1..Len(sortedFiles) :
          /\ taskPc[i] = "read"
          /\ Settle(i, Failure(sortedFiles[i],
                               << "Read error: " >> \o ReadFailure.error))
    /\ UNCHANGED << matched, globFailed, inputPatterns, include, exclude, useDefaultExcludes, aborted, fileFilteringOptions, pc, dirIndex,
                    allEntries, filesToConsider, skippedFiles, gitIgnoredCount,
                    geminiIgnoredCount, sortedFiles,
                    processedFilesRelativePaths, contentParts, returned,
                    globCalls, globIgnores, filterCalls, detectCalls, readCalls >>

\* processSingleFileContent throws: the catch of line 226.
ReadThrows ==
    /\ pc = "fetch"
    /\ \E i \in 1..Len(sortedFiles) :
          /\ taskPc[i] = "read"
          /\ Settle(i, Failure(sortedFiles[i],
                               << "Unexpected error: " >> \o ThrownMessage))
    /\ UNCHANGED << matched, globFailed, inputPatterns, include, exclude, useDefaultExcludes, aborted, fileFilteringOptions, pc, dirIndex,
                    allEntries, filesToConsider, skippedFiles, gitIgnoredCount,
                    geminiIgnoredCount, sortedFiles,
                    processedFilesRelativePaths, contentParts, returned,
                    globCalls, globIgnores, filterCalls, detectCalls, readCalls >>

\* processSingleFileContent resolves with the content (lines 219-224).
ReadReturns ==
    /\ pc = "fetch"
    /\ \E i \in 1..Len(sortedFiles) :
          /\ taskPc[i] = "read"
          /\ Settle(i, Success(sortedFiles[i], ReadResult(sortedFiles[i])))
    /\ UNCHANGED << matched, globFailed, inputPatterns, include, exclude, useDefaultExcludes, aborted, fileFilteringOptions, pc, dirIndex,
                    allEntries, filesToConsider, skippedFiles, gitIgnoredCount,
                    geminiIgnoredCount, sortedFiles,
                    processedFilesRelativePaths, contentParts, returned,
                    globCalls, globIgnores, filterCalls, detectCalls, readCalls >>


(***************************************************************************)
(* execute: assembly (lines 239-330)                                       *)
(***************************************************************************)

\* The most processed files, and skip records, the display lists
MaxListedProcessed == 10
MaxListedSkipped == 5

TruncationWarning ==
    "[WARNING: This file was truncated. To view the full content, use the 'read_file' tool on this specific file.]"

\* DEFAULT_OUTPUT_SEPARATOR_FORMAT.replace('{filePath}', filePath) (line 253)
Separator(filePath) == << "--- " >> \o filePath \o << " ---" >>

\* The content part of a file that was read (lines 252-264)
ContentPart(fileResult) ==
    IF fileResult.fileReadResult.llmContentIsString
    THEN [isString |-> TRUE,
          text |-> Separator(fileResult.filePath) \o << "\n", "\n" >>
                   \o (IF fileResult.fileReadResult.isTruncated
                       THEN << TruncationWarning, "\n", "\n" >> ELSE << >>)
                   \o fileResult.fileReadResult.llmContent
                   \o << "\n", "\n" >>]
    ELSE [isString |-> FALSE, text |-> fileResult.fileReadResult.llmContent]

\* CollectResults stopping at the first task that did not succeed, as a
\* fail-fast join would.
CollectResultsFailFast(settled, acc) ==
    LET failed == {k \in 1..Len(settled) : ~settled[k].success}
        first == IF failed = {} THEN Len(settled) + 1
                 ELSE CHOOSE k \in failed : \A j \in failed : k <= j
        read == SubSeq(settled, 1, first - 1)
    IN  [acc EXCEPT
            !.skippedFiles =
                IF failed = {} THEN @
                ELSE Append(@, [path |-> settled[first].relativePathForDisplay,
                                reason |-> settled[first].reason]),
            !.contentParts =
                @ \o [k \in 1..Len(read) |-> ContentPart(read[k])],
            !.processedFilesRelativePaths =
                @ \o [k \in 1..Len(read) |-> read[k].relativePathForDisplay]]

RECURSIVE CollectResults(_, _)
\* The loop of lines 239-283 over the results left, from the state acc
CollectResults(settled, acc) ==
    IF settled = << >> THEN acc
    ELSE LET result == Head(settled)
             next ==
                IF result.status = "fulfilled"
                THEN IF ~result.success
                     THEN [acc EXCEPT !.skippedFiles =
                              Append(@, [path |-> result.relativePathForDisplay,
                                         reason |-> result.reason])]
                     ELSE [acc EXCEPT
                              !.contentParts = Append(@, ContentPart(result)),
                              !.processedFilesRelativePaths =
                                  Append(@, result.relativePathForDisplay)]
                ELSE [acc EXCEPT !.skippedFiles =
                         Append(@, [path |-> << "unknown" >>,
                                    reason |-> << "Unexpected error: " >>
                                               \o result.reason])]
         IN  CollectResults(Tail(settled), next)

\* Take keeping one element more than asked.
TakeOneMore(arr, n) == SubSeq(arr, 1, IF Len(arr) < n + 1 THEN Len(arr) ELSE n + 1)

\* The first n elements of an array: arr.slice(0, n)
Take(arr, n) == SubSeq(arr, 1, IF Len(arr) < n THEN Len(arr) ELSE n)

RECURSIVE ProcessedLines(_)
\* One display line per processed path (lines 289, 295)
ProcessedLines(paths) ==
    IF paths = << >> THEN << >>
    ELSE << "- ", Tick >> \o Head(paths) \o << Tick, "\n" >>
         \o ProcessedLines(Tail(paths))

RECURSIVE SkippedLines(_)
\* One display line per skip record (line 311)
SkippedLines(skipped) ==
    IF skipped = << >> THEN << >>
    ELSE << "- ", Tick >> \o Head(skipped).path \o << Tick, " (Reason: " >>
         \o Head(skipped).reason \o << ")", "\n" >>
         \o SkippedLines(Tail(skipped))

IsWhitespace(token) == token \in {"\n", " "}

RECURSIVE trim(_)
\* String.prototype.trim
trim(s) ==
    IF s = << >> THEN s
    ELSE IF IsWhitespace(Head(s)) THEN trim(Tail(s))
    ELSE IF IsWhitespace(s[Len(s)]) THEN trim(SubSeq(s, 1, Len(s) - 1))
    ELSE s

NoneReadText == "No files were read and concatenated based on the criteria."

\* displayMessage (lines 284-319)
DisplayMessage(processed, skipped) ==
    << "### ReadManyFiles Result (Target Dir: ", Tick >> \o targetDir
       \o << Tick, ")", "\n", "\n" >>
    \o (IF Len(processed) > 0
        THEN << "Successfully read and concatenated content from **",
                ToString(Len(processed)), " file(s)**.", "\n" >>
             \o (IF Len(processed) <= MaxListedProcessed
                 THEN << "\n", "**Processed Files:**", "\n" >>
                      \o ProcessedLines(processed)
                 ELSE << "\n", "**Processed Files (first 10 shown):**", "\n" >>
                      \o ProcessedLines(Take(processed, MaxListedProcessed))
                      \o << "- ...and ",
                            ToString(Len(processed) - MaxListedProcessed),
                            " more.", "\n" >>)
        ELSE << >>)
    \o (IF Len(skipped) > 0
        THEN (IF Len(processed) = 0 THEN << NoneReadText, "\n" >> ELSE << >>)
             \o (IF Len(skipped) <= MaxListedSkipped
                 THEN << "\n", "**Skipped ", ToString(Len(skipped)),
                         " item(s):**", "\n" >>
                 ELSE << "\n", "**Skipped ", ToString(Len(skipped)),
                         " item(s) (first 5 shown):**", "\n" >>)
             \o SkippedLines(Take(skipped, MaxListedSkipped))
             \o (IF Len(skipped) > MaxListedSkipped
                 THEN << "- ...and ", ToString(Len(skipped) - MaxListedSkipped),
                         " more.", "\n" >>
                 ELSE << >>)
        ELSE IF Len(processed) = 0 THEN << NoneReadText, "\n" >>
        ELSE << >>)

\* LastPart closing the content with the terminator whatever was read.
LastPartAlwaysTerminator(parts) ==
    [isString |-> TRUE, text |-> << DEFAULT_OUTPUT_TERMINATOR >>]

\* The last content part (lines 320-325)
LastPart(parts) ==
    IF Len(parts) > 0
    THEN [isString |-> TRUE, text |-> << DEFAULT_OUTPUT_TERMINATOR >>]
    ELSE [isString |-> TRUE, text |-> << NoFilesText >>]

\* The join resolving as soon as one task has settled, as Promise.race or
\* Promise.any would
OneTaskSettled ==
    sortedFiles = << >> \/ \E i \in 1..Len(sortedFiles) : taskPc[i] = "settled"

\* Promise.allSettled resolves when every task has settled (line 238)
EveryTaskSettled == \A i \in 1..Len(sortedFiles) : taskPc[i] = "settled"

\* Every task has settled: the results are collected in the order of
\* sortedFiles and the content and the display are returned (lines 238-330).
Assemble ==
    /\ pc = "fetch"
    /\ EveryTaskSettled
    /\ LET done == CollectResults(results,
                      [skippedFiles |-> skippedFiles, contentParts |-> << >>,
                       processedFilesRelativePaths |-> << >>])
           parts == Append(done.contentParts, LastPart(done.contentParts))
       IN  /\ skippedFiles' = done.skippedFiles
           /\ processedFilesRelativePaths' = done.processedFilesRelativePaths
           /\ contentParts' = parts
           /\ returned' =
                 [llmContentIsArray |-> TRUE,
                  llmContent |-> parts,
                  returnDisplay |->
                     trim(DisplayMessage(done.processedFilesRelativePaths,
                                         done.skippedFiles)),
                  errorType |-> "none"]
    /\ pc' = "done"
    /\ UNCHANGED << matched, globFailed, inputPatterns, include, exclude, useDefaultExcludes, aborted, fileFilteringOptions, dirIndex,
                    allEntries, filesToConsider, gitIgnoredCount,
                    geminiIgnoredCount, sortedFiles, taskPc, results, globCalls, globIgnores,
                    filterCalls, detectCalls, readCalls, settledOutOfOrder >>

(***************************************************************************)
(* The read_many_files handler of read-many-files.tool.js: environment     *)
(***************************************************************************)

\* process.cwd()
cwd == RootW

ToolEmpty  == << "/", "w", "/", "e", ".", "m", "d" >>
ToolOne    == << "/", "w", "/", "o", ".", "m", "d" >>
ToolTwo    == << "/", "w", "/", "d", ".", "m", "d" >>
ToolEndsNl == << "/", "w", "/", "n", ".", "m", "d" >>
ToolPng    == << "/", "w", "/", "p", ".", "p", "n", "g" >>
ToolNul    == << "/", "w", "/", "b", ".", "m", "d" >>
ToolGone   == << "/", "w", "/", "g", ".", "m", "d" >>
ToolDir    == << "/", "w", "/", "s" >>
ToolBig    == << "/", "w", "/", "x", ".", "m", "d" >>
ToolLocked == << "/", "w", "/", "l", ".", "m", "d" >>

\* The paths fast-glob may return
ToolPaths ==
    { ToolEmpty, ToolOne, ToolTwo, ToolEndsNl, ToolPng, ToolNul, ToolGone,
      ToolDir, ToolBig, ToolLocked }

\* The NUL character
Nul == "NUL"

\* existsSync(filePath)
existsSync(filePath) == filePath # ToolGone

\* statSync(filePath).isFile()
isFile(filePath) == filePath # ToolDir

\* readFileSync(filePath, 'utf-8') throws
ReadThrowsFor(filePath) == filePath = ToolLocked

\* readFileSync(filePath, 'utf-8') when it does not throw
readFileSync(filePath) ==
    CASE filePath = ToolEmpty -> << >>
      [] filePath = ToolOne -> << "a" >>
      [] filePath = ToolTwo -> << "a", "\n", "b" >>
      [] filePath = ToolEndsNl -> << "a", "\n", "b", "\n" >>
      [] filePath = ToolPng -> << "P", "N", "G" >>
      [] filePath = ToolNul -> << "a", Nul, "b" >>
      [] filePath = ToolBig -> << "a", "\n", "b", "\n", "a", "\n", "b" >>
      [] OTHER -> << "a", "\n", "b", "\n", "a" >>

\* 1024 * 1024 (line 75)
BinarySizeLimit == 1048576

\* statSync(filePath).size
fileSize(filePath) ==
    IF filePath = ToolBig THEN BinarySizeLimit + 1 ELSE Len(readFileSync(filePath))

\* maxResultLength (line 121)
maxResultLength == 100000

(***************************************************************************)
(* Bounds                                                                  *)
(***************************************************************************)

\* The most paths fast-glob returns in one call.
MaxToolMatches == 2

\* The largest max_lines_per_file tried, and how far below zero it goes.
MaxLineLimit == 3
MinLineLimitBelowZero == 1

(***************************************************************************)
(* The read_many_files handler: state                                      *)
(***************************************************************************)

VARIABLES
    max_files,
    max_lines_per_file,
    toolPc,             \* "idle", "init", "glob", "done"
    filePaths,          \* what fast-glob resolved to
    toolResult,         \* result when the loop of lines 54-100 ends
    toolBlocks,         \* per file emitted: its path, content and banner
    processedCount,
    toolSkippedFiles,
    skippedCount,
    toolText            \* content[0].text of the value returned

toolVars ==
    << max_files, max_lines_per_file, toolPc, filePaths, toolResult,
       toolBlocks, processedCount, toolSkippedFiles, skippedCount, toolText >>

\* The handler is not running.
ToolIdle ==
    /\ max_files = 0
    /\ max_lines_per_file = 0
    /\ toolPc = "idle"
    /\ filePaths = << >>
    /\ toolResult = << >>
    /\ toolBlocks = << >>
    /\ processedCount = 0
    /\ toolSkippedFiles = << >>
    /\ skippedCount = 0
    /\ toolText = << >>

\* execute is not running.
ExecIdle ==
    /\ inputPatterns = << >>
    /\ include = << >>
    /\ exclude = << >>
    /\ useDefaultExcludes = TRUE
    /\ aborted = FALSE
    /\ fileFilteringOptions =
          [respectGitIgnore |-> FALSE, respectGeminiIgnore |-> FALSE]
    /\ pc = "idle"
    /\ dirIndex = 1
    /\ allEntries = << >>
    /\ filesToConsider = << >>
    /\ skippedFiles = << >>
    /\ gitIgnoredCount = 0
    /\ geminiIgnoredCount = 0
    /\ sortedFiles = << >>
    /\ taskPc = << >>
    /\ results = << >>
    /\ processedFilesRelativePaths = << >>
    /\ contentParts = << >>
    /\ returned = NotReturned
    /\ globCalls = << >>
    /\ globIgnores = << >>
    /\ matched = << >>
    /\ globFailed = FALSE
    /\ filterCalls = {}
    /\ detectCalls = {}
    /\ readCalls = {}
    /\ settledOutOfOrder = FALSE

\* The values of max_files and of max_lines_per_file of a call; the schema
\* takes any number.
MaxFilesChoices == {-1, 0, 1, 50}
MaxLinesChoices == (0 - MinLineLimitBelowZero)..MaxLineLimit

InitTool ==
    /\ max_files \in MaxFilesChoices
    /\ max_lines_per_file \in MaxLinesChoices
    /\ toolPc = "init"
    /\ filePaths = << >>
    /\ toolResult = << >>
    /\ toolBlocks = << >>
    /\ processedCount = 0
    /\ toolSkippedFiles = << >>
    /\ skippedCount = 0
    /\ toolText = << >>

(***************************************************************************)
(* The read_many_files handler (lines 14-145)                              *)
(***************************************************************************)

\* The arrays fast-glob may resolve to: distinct paths in any order
ToolGlobResults ==
    { s \in UNION {[1..n -> ToolPaths] : n \in 0..MaxToolMatches} :
        \A i, j \in 1..Len(s) : i # j => s[i] # s[j] }

\* Array.prototype.slice(0, end)
slice(arr, end) ==
    LET e == IF end < 0
             THEN (IF Len(arr) + end < 0 THEN 0 ELSE Len(arr) + end)
             ELSE (IF end > Len(arr) THEN Len(arr) ELSE end)
    IN  SubSeq(arr, 1, e)

RECURSIVE SplitLines(_, _)
\* content.split('\n'), cur being the line read so far
SplitLines(content, cur) ==
    IF content = << >> THEN << cur >>
    ELSE IF Head(content) = "\n"
         THEN << cur >> \o SplitLines(Tail(content), << >>)
         ELSE SplitLines(Tail(content), Append(cur, Head(content)))

RECURSIVE JoinLines(_)
\* lines.join('\n')
JoinLines(lines) ==
    IF lines = << >> THEN << >>
    ELSE IF Len(lines) = 1 THEN lines[1]
    ELSE lines[1] \o << "\n" >> \o JoinLines(Tail(lines))

\* binaryExtensions (line 72)
binaryExtensions ==
    { << ".", "p", "n", "g" >>, << ".", "j", "p", "g" >>,
      << ".", "j", "p", "e", "g" >>, << ".", "g", "i", "f" >>,
      << ".", "b", "m", "p" >>, << ".", "i", "c", "o" >>,
      << ".", "p", "d", "f" >>, << ".", "z", "i", "p" >>,
      << ".", "t", "a", "r" >>, << ".", "g", "z" >> }

\* isBinary (lines 71-75)
isBinary(filePath, content) ==
    \/ toLowerCase(extname(filePath)) \in binaryExtensions
    \/ arrayIncludes(content, Nul)
    \/ fileSize(filePath) > BinarySizeLimit

\* fileContent (lines 81-86)
TruncatedContent(lines, content, limit) ==
    IF Len(lines) > limit THEN JoinLines(slice(lines, limit)) ELSE content

\* The banner of line 91
TruncationBanner(lineCount, limit) ==
    << "\n", "\n", "[TRUNCATED: File has ", ToString(lineCount),
       " lines, showing first ", ToString(limit), "]", "\n" >>

\* What one turn of the loop does with a file (lines 55-99)
ReadOne(filePath, limit, acc) ==
    LET relativePath == relative(cwd, filePath)
        skip(why) ==
            [acc EXCEPT !.skippedFiles = Append(@, relativePath \o << why >>)]
    IN  IF ~existsSync(filePath) THEN skip(" (file not found)")
        ELSE IF ~isFile(filePath) THEN skip(" (not a file)")
        ELSE IF ReadThrowsFor(filePath)
             THEN [acc EXCEPT !.skippedFiles =
                      Append(@, relativePath \o << " (read error: " >>
                                \o ReadErrorMessage \o << ")" >>)]
        ELSE LET content == readFileSync(filePath)
                 lines == SplitLines(content, << >>)
             IN  IF isBinary(filePath, content) THEN skip(" (binary file)")
                 ELSE LET isTruncated == Len(lines) > limit
                          fileContent == TruncatedContent(lines, content, limit)
                          banner == IF isTruncated
                                    THEN TruncationBanner(Len(lines), limit)
                                    ELSE << >>
                      IN  [acc EXCEPT
                              !.result = @ \o << "--- " >> \o relativePath
                                           \o << " ---", "\n" >> \o fileContent
                                           \o banner \o << "\n", "\n" >>,
                              !.blocks = Append(@, [filePath |-> filePath,
                                                    fileContent |-> fileContent,
                                                    banner |-> banner]),
                              !.processedCount = @ + 1]

RECURSIVE ReadLoop(_, _, _)
\* The loop of lines 54-100 over the files left, from the state acc
ReadLoop(filesToRead, limit, acc) ==
    IF filesToRead = << >> THEN acc
    ELSE ReadLoop(Tail(filesToRead), limit, ReadOne(Head(filesToRead), limit, acc))

RECURSIVE Length(_)
\* String.prototype.length of a string of tokens
Length(s) == IF s = << >> THEN 0 ELSE Len(Head(s)) + Length(Tail(s))

RECURSIVE substring(_, _)
\* result.substring(0, n); a token that does not fit whole is left out
substring(s, n) ==
    IF s = << >> \/ Len(Head(s)) > n THEN << >>
    ELSE << Head(s) >> \o substring(Tail(s), n - Len(Head(s)))

RECURSIVE ToolSkippedLines(_)
\* One summary line per skipped file (lines 109-111)
ToolSkippedLines(skipped) ==
    IF skipped = << >> THEN << >>
    ELSE << "- " >> \o Head(skipped) \o << "\n" >> \o ToolSkippedLines(Tail(skipped))

\* The files the summary lists
MaxListedToolSkips == 10

\* summary (lines 102-118)
ToolSummary(found, done) ==
    << "## Read Many Files Result", "\n", "\n",
       "**Processed:** ", ToString(done.processedCount), " files", "\n" >>
    \o (IF Len(found) - Len(slice(found, max_files)) > 0
        THEN << "**Total found:** ", ToString(Len(found)), " files (",
                ToString(Len(found) - Len(slice(found, max_files))),
                " skipped due to limit)", "\n" >>
        ELSE << >>)
    \o (IF Len(done.skippedFiles) > 0
        THEN << "\n", "**Skipped files:**", "\n" >>
             \o ToolSkippedLines(slice(done.skippedFiles, MaxListedToolSkips))
             \o (IF Len(done.skippedFiles) > MaxListedToolSkips
                 THEN << "- ... and ",
                         ToString(Len(done.skippedFiles) - MaxListedToolSkips),
                         " more", "\n" >>
                 ELSE << >>)
        ELSE << >>)
    \o (IF done.processedCount = 0
        THEN << "\n",
                "No files could be read. All matching files were skipped or had errors.",
                "\n" >>
        ELSE << >>)

\* The text returned for a result (lines 119-130)
ToolFinalText(summary, result) ==
    LET whole == summary \o << "\n" >> \o result
    IN  trim(IF Length(whole) > maxResultLength
             THEN substring(whole, maxResultLength)
                  \o << "\n", "\n",
                        "[RESULT TRUNCATED: Output too large. Consider using more specific patterns or reducing max_files/max_lines_per_file.]" >>
             ELSE whole)

\* The handler is called and awaits fast-glob (lines 14-36).
ToolCall ==
    /\ toolPc = "init"
    /\ toolPc' = "glob"
    /\ UNCHANGED << max_files, max_lines_per_file, filePaths, toolResult,
                    toolBlocks, processedCount, toolSkippedFiles, skippedCount,
                    toolText >>

\* fast-glob rejects: the catch of line 135 returns the error text.
ToolGlobRejects ==
    /\ toolPc = "glob"
    /\ toolPc' = "done"
    /\ toolText' = << "Error reading files: " >> \o GlobErrorMessage
    /\ UNCHANGED << max_files, max_lines_per_file, filePaths, toolResult,
                    toolBlocks, processedCount, toolSkippedFiles, skippedCount >>

\* fast-glob resolves: the files are read in turn and the text is returned
\* (lines 36-134).
ToolGlobResolves ==
    /\ toolPc = "glob"
    /\ \E found \in ToolGlobResults :
          /\ filePaths' = found
          /\ IF Len(found) = 0
             THEN /\ toolText' =
                        << "No files found matching the specified patterns." >>
                  /\ UNCHANGED << toolResult, toolBlocks, processedCount,
                                  toolSkippedFiles, skippedCount >>
             ELSE LET filesToRead == slice(found, max_files)
                      done == ReadLoop(filesToRead, max_lines_per_file,
                                  [result |-> << >>, blocks |-> << >>,
                                   processedCount |-> 0, skippedFiles |-> << >>])
                  IN  /\ skippedCount' = Len(found) - Len(filesToRead)
                      /\ toolResult' = done.result
                      /\ toolBlocks' = done.blocks
                      /\ processedCount' = done.processedCount
                      /\ toolSkippedFiles' = done.skippedFiles
                      /\ toolText' = ToolFinalText(ToolSummary(found, done),
                                                   done.result)
    /\ toolPc' = "done"
    /\ UNCHANGED << max_files, max_lines_per_file >>

(***************************************************************************)
(* execute with many candidates: the state in which every task has settled *)
(* and Promise.allSettled is about to resolve (line 238)                   *)
(***************************************************************************)

\* The most files read, and the most files whose read failed, in such a call.
MaxJoinProcessed == 12
MaxJoinSkipped == 7

Digits == << "0", "1", "2", "3", "4", "5", "6", "7", "8", "9" >>

\* The i-th file of the target directory, named so that the files sort by i
JoinFile(i) ==
    targetDir \o << "/", "f", Digits[(i \div 10) + 1], Digits[(i % 10) + 1] >>

\* A call that matched n + f text files under the first root, all kept by the
\* checks of lines 137-161, of which the first n were read and the last f
\* could not be: the state when the last task has settled.
JoinState(n, f) ==
    LET files == [i \in 1..(n + f) |-> JoinFile(i)]
    IN  /\ inputPatterns = << << "f", "*" >> >>
        /\ include = << >>
        /\ exclude = << >>
        /\ useDefaultExcludes = TRUE
        /\ aborted = FALSE
        /\ fileFilteringOptions =
              [respectGitIgnore |-> FALSE, respectGeminiIgnore |-> FALSE]
        /\ pc = "fetch"
        /\ dirIndex = Len(workspaceDirs)
        /\ allEntries = files
        /\ filesToConsider = files
        /\ skippedFiles = << >>
        /\ gitIgnoredCount = 0
        /\ geminiIgnoredCount = 0
        /\ sortedFiles = files
        /\ taskPc = [i \in 1..(n + f) |-> "settled"]
        /\ results =
              [i \in 1..(n + f) |->
                  IF i <= n THEN Success(files[i], ReadResult(files[i]))
                  ELSE Failure(files[i],
                               << "Read error: " >> \o ReadFailure.error)]
        /\ processedFilesRelativePaths = << >>
        /\ contentParts = << >>
        /\ returned = NotReturned
        /\ globCalls = workspaceDirs
        /\ globIgnores = [d \in 1..Len(workspaceDirs) |-> getDefaultExcludes]
        /\ matched = << files, << >> >>
        /\ globFailed = FALSE
        /\ filterCalls = {}
        /\ detectCalls = Range(files)
        /\ readCalls = Range(files)
        /\ settledOutOfOrder = FALSE

(***************************************************************************)
(* The read_many_files handler of part_001: environment                    *)
(***************************************************************************)

PartSmall  == << "/", "w", "/", "a", ".", "m", "d" >>
PartLarge  == << "/", "w", "/", "b", ".", "m", "d" >>
PartImage  == << "/", "w", "/", "p", ".", "p", "n", "g" >>
PartPoster == << "/", "w", "/", "x", ".", "p", "n", "g" >>

\* What fast-glob can find, in the order it walks the directory
PartListing == << PartPoster, PartSmall, PartImage, PartLarge >>

\* The bytes of a file
PartContent(filePath) ==
    CASE filePath = PartSmall -> << "a", "\n", "b" >>
      [] filePath = PartLarge -> << "a", "\n", "b", "\n", "a", "\n", "b", "\n", "a" >>
      [] filePath = PartImage -> << "P", "N", "G" >>
      [] OTHER -> << "P", "N", "G", "P", "N", "G", "P", "N", "G" >>

\* statSync(filePath).size
PartSize(filePath) == Len(PartContent(filePath))

\* The messages of the errors the file system raises
PartErrorMessage == << "EIO: i/o error" >>

(***************************************************************************)
(* The read_many_files handler of part_001: state                          *)
(***************************************************************************)

VARIABLES
    partPatterns,       \* patterns
    partMaxFiles,       \* max_files
    max_file_size,
    include_file_info,
    partPc,             \* "idle", "init", "glob", "loop", "done"
    filesToProcess,
    filesSkipped,
    fileIndex,          \* the file the loop of line 131 is at
    openDescriptors,    \* the file descriptors the process holds open
    partResults,        \* results
    processedFiles,
    partSkippedFiles,   \* skippedFiles
    partText            \* content[0].text of the value returned

partVars ==
    << partPatterns, partMaxFiles, max_file_size, include_file_info, partPc,
       filesToProcess, filesSkipped, fileIndex, openDescriptors, partResults,
       processedFiles, partSkippedFiles, partText >>

\* The handler is not running.
PartIdle ==
    /\ partPatterns = << >>
    /\ partMaxFiles = 0
    /\ max_file_size = 0
    /\ include_file_info = FALSE
    /\ partPc = "idle"
    /\ filesToProcess = << >>
    /\ filesSkipped = 0
    /\ fileIndex = 1
    /\ openDescriptors = {}
    /\ partResults = << >>
    /\ processedFiles = << >>
    /\ partSkippedFiles = << >>
    /\ partText = << >>

\* The parameters of a call: the patterns, max_files and max_file_size
PartPatternChoices == { << << "*" >> >>, << << "*", ".", "p", "n", "g" >> >> }
PartMaxFilesChoices == {2, 50}
PartMaxFileSizeChoices == {4, 100000}

InitPart ==
    /\ partPatterns \in PartPatternChoices
    /\ partMaxFiles \in PartMaxFilesChoices
    /\ max_file_size \in PartMaxFileSizeChoices
    /\ include_file_info \in BOOLEAN
    /\ partPc = "init"
    /\ filesToProcess = << >>
    /\ filesSkipped = 0
    /\ fileIndex = 1
    /\ openDescriptors = {}
    /\ partResults = << >>
    /\ processedFiles = << >>
    /\ partSkippedFiles = << >>
    /\ partText = << >>

(***************************************************************************)
(* The read_many_files handler of part_001 (lines 80-366)                  *)
(***************************************************************************)

\* A pattern of the model, "*" followed by literal text, matches the files of
\* the working directory whose name ends with that text.
PartPatternMatches(pattern, filePath) ==
    LET fileName == LastSegment(filePath)
        suffix == Tail(pattern)
    IN  /\ Len(suffix) <= Len(fileName)
        /\ SubSeq(fileName, Len(fileName) - Len(suffix) + 1, Len(fileName)) = suffix

\* The arrays fast-glob may resolve to: the files the patterns match, of
\* those that exist, in the order of the walk
PartGlobResults ==
    LET matching == { i \in 1..Len(PartListing) :
                        \E k \in 1..Len(partPatterns) :
                            PartPatternMatches(partPatterns[k], PartListing[i]) }
    IN  { SubList(PartListing, S, 1) : S \in SUBSET matching }

\* The first descriptor the process does not hold: what openSync returns
FirstFreeDescriptor(open) ==
    CHOOSE fd \in 3..(3 + Cardinality(open)) :
        /\ fd \notin open
        /\ \A g \in 3..(fd - 1) : g \in open

\* The extensions of the text files (the list of lines 175-248), as far as
\* the files of the model go
TextExtensions ==
    { << ".", "t", "x", "t" >>, << ".", "m", "d" >>, << ".", "j", "s" >>,
      << ".", "t", "s" >>, << ".", "j", "s", "o", "n" >> }

\* isTextFile (lines 172-248)
isTextFile(filePath) ==
    LET fileExtension == toLowerCase(extname(filePath))
    IN  fileExtension = << >> \/ fileExtension \in TextExtensions

\* explicitlyRequested (lines 252-258)
explicitlyRequested(filePath, pats) ==
    LET fileExtension == toLowerCase(extname(filePath))
        fileName == LastSegment(filePath)
    IN  \E i \in 1..Len(pats) :
            \/ includes(pats[i], fileExtension)
            \/ includes(pats[i], fileName)
            \/ includes(pats[i], << "*" >> \o fileExtension)

RECURSIVE JoinWith(_, _)
\* Array.prototype.join(sep) of an array of strings
JoinWith(arr, sep) ==
    IF arr = << >> THEN << >>
    ELSE IF Len(arr) = 1 THEN arr[1]
    ELSE arr[1] \o << sep >> \o JoinWith(Tail(arr), sep)

\* The file the loop is at
CurrentFile == filesToProcess[fileIndex]

\* The loop of line 131 is at a file.
AtFile == partPc = "loop" /\ fileIndex <= Len(filesToProcess)

\* The catch of lines 286-294, and on to the next file
PartCatch ==
    /\ partSkippedFiles' =
          Append(partSkippedFiles,
                 [path |-> relative(cwd, CurrentFile),
                  reason |-> << "Error reading file: " >> \o PartErrorMessage])
    /\ fileIndex' = fileIndex + 1
    /\ UNCHANGED << partPatterns, partMaxFiles, max_file_size, include_file_info,
                    partPc, filesToProcess, filesSkipped, partResults,
                    processedFiles, partText >>

\* What is pushed to results for a file (lines 155-165, 273-283)
PartBlock(relativePath, info, content) ==
    IF include_file_info
    THEN << << "--- " >> \o relativePath \o << " ---" >>, info, << >>, content, << >> >>
    ELSE << content >>

\* The handler is called and awaits fast-glob (lines 80-102).
PartCall ==
    /\ partPc = "init"
    /\ partPc' = "glob"
    /\ UNCHANGED << partPatterns, partMaxFiles, max_file_size, include_file_info,
                    filesToProcess, filesSkipped, fileIndex, openDescriptors,
                    partResults, processedFiles, partSkippedFiles, partText >>

\* fast-glob rejects: the catch of line 354 returns the error text.
PartGlobRejects ==
    /\ partPc = "glob"
    /\ partPc' = "done"
    /\ partText' = << "Error processing files: " >> \o PartErrorMessage
    /\ UNCHANGED << partPatterns, partMaxFiles, max_file_size, include_file_info,
                    filesToProcess, filesSkipped, fileIndex, openDescriptors,
                    partResults, processedFiles, partSkippedFiles >>

\* fast-glob resolves: nothing matched and the handler returns, or the
\* matches are sorted and cut to max_files and the loop starts (lines 95-131).
PartGlobResolves ==
    /\ partPc = "glob"
    /\ \E matchedFiles \in PartGlobResults :
          IF Len(matchedFiles) = 0
          THEN /\ partPc' = "done"
               /\ partText' = << "No files found matching patterns: " >>
                                \o JoinWith(partPatterns, ", ")
                                \o << "\n", "\n", "Excluded patterns: ",
                                      "<the first five exclude patterns>" >>
               /\ UNCHANGED << filesToProcess, filesSkipped >>
          ELSE /\ partPc' = "loop"
               /\ filesToProcess' = slice(sort(matchedFiles), partMaxFiles)
               /\ filesSkipped' =
                     Len(matchedFiles) - Len(slice(sort(matchedFiles), partMaxFiles))
               /\ UNCHANGED partText
    /\ UNCHANGED << partPatterns, partMaxFiles, max_file_size, include_file_info,
                    fileIndex, openDescriptors, partResults, processedFiles,
                    partSkippedFiles >>

\* statSync throws (line 133): the catch records the file.
PartStatThrows ==
    /\ AtFile
    /\ PartCatch
    /\ UNCHANGED openDescriptors

\* The file is larger than max_file_size and openSync throws (line 140): no
\* descriptor is opened and the catch records the file.
PartOpenThrows ==
    /\ AtFile
    /\ PartSize(CurrentFile) > max_file_size
    /\ PartCatch
    /\ UNCHANGED openDescriptors

\* The file is larger than max_file_size, openSync returns a descriptor and
\* readSync throws (lines 140-147): control leaves for the catch of line 286
\* and closeSync (line 148) is not reached.
PartReadSyncThrows ==
    /\ AtFile
    /\ PartSize(CurrentFile) > max_file_size
    /\ openDescriptors' =
          openDescriptors \cup {FirstFreeDescriptor(openDescriptors)}
    /\ PartCatch

\* The file is larger than max_file_size: it is opened, its first
\* max_file_size bytes are read, it is closed, and the bytes read are pushed
\* with the warning (lines 137-169).
PartReadTruncated ==
    /\ AtFile
    /\ PartSize(CurrentFile) > max_file_size
    /\ LET fd == FirstFreeDescriptor(openDescriptors)
           opened == openDescriptors \cup {fd}
           truncatedContent == slice(PartContent(CurrentFile), max_file_size)
           relativePath == relative(cwd, CurrentFile)
           warning == << "[WARNING: File truncated - showing first ",
                         ToString(max_file_size), " bytes of ",
                         ToString(PartSize(CurrentFile)), " total bytes]" >>
       IN  /\ openDescriptors' = opened \ {fd}
           /\ partResults' =
                 partResults \o PartBlock(relativePath, warning, truncatedContent)
           /\ processedFiles' = Append(processedFiles, relativePath)
    /\ fileIndex' = fileIndex + 1
    /\ UNCHANGED << partPatterns, partMaxFiles, max_file_size, include_file_info,
                    partPc, filesToProcess, filesSkipped, partSkippedFiles,
                    partText >>

\* The file is not larger than max_file_size, is not a text file and no
\* pattern names it: it is skipped (lines 250-266).
PartSkipNonText ==
    /\ AtFile
    /\ PartSize(CurrentFile) <= max_file_size
    /\ ~isTextFile(CurrentFile)
    /\ ~explicitlyRequested(CurrentFile, partPatterns)
    /\ partSkippedFiles' =
          Append(partSkippedFiles,
                 [path |-> relative(cwd, CurrentFile),
                  reason |-> << "Binary/non-text file (" >>
                             \o toLowerCase(extname(CurrentFile))
                             \o << ") not explicitly requested" >>])
    /\ fileIndex' = fileIndex + 1
    /\ UNCHANGED << partPatterns, partMaxFiles, max_file_size, include_file_info,
                    partPc, filesToProcess, filesSkipped, openDescriptors,
                    partResults, processedFiles, partText >>

\* The file is to be read whole and readFileSync throws (line 270).
PartReadFileThrows ==
    /\ AtFile
    /\ PartSize(CurrentFile) <= max_file_size
    /\ isTextFile(CurrentFile) \/ explicitlyRequested(CurrentFile, partPatterns)
    /\ PartCatch
    /\ UNCHANGED openDescriptors

\* The file is read whole and pushed with its file info (lines 269-285).
PartReadFile ==
    /\ AtFile
    /\ PartSize(CurrentFile) <= max_file_size
    /\ isTextFile(CurrentFile) \/ explicitlyRequested(CurrentFile, partPatterns)
    /\ LET content == PartContent(CurrentFile)
           relativePath == relative(cwd, CurrentFile)
           info == << "[File info: ",
                      ToString(Len(SplitLines(content, << >>))), " lines, ",
                      ToString(PartSize(CurrentFile)), " bytes]" >>
       IN  /\ partResults' = partResults \o PartBlock(relativePath, info, content)
           /\ processedFiles' = Append(processedFiles, relativePath)
    /\ fileIndex' = fileIndex + 1
    /\ UNCHANGED << partPatterns, partMaxFiles, max_file_size, include_file_info,
                    partPc, filesToProcess, filesSkipped, openDescriptors,
                    partSkippedFiles, partText >>

RECURSIVE PartProcessedLines(_)
\* One summary line per processed file (lines 316-318)
PartProcessedLines(files) ==
    IF files = << >> THEN << >>
    ELSE << "- " >> \o Head(files) \o << "\n" >> \o PartProcessedLines(Tail(files))

RECURSIVE PartSkippedLines(_)
\* One summary line per skipped file (lines 324-326)
PartSkippedLines(skipped) ==
    IF skipped = << >> THEN << >>
    ELSE << "- " >> \o Head(skipped).path \o << ": " >> \o Head(skipped).reason
         \o << "\n" >> \o PartSkippedLines(Tail(skipped))

\* The skipped files the summary lists (line 324)
MaxListedPartSkips == 10

\* finalOutput (lines 298-344)
FinalOutput ==
    (IF include_file_info
     THEN << "=== READ MANY FILES SUMMARY ===", "\n",
             "Processed: ", ToString(Len(processedFiles)), " files", "\n" >>
          \o (IF Len(partSkippedFiles) > 0
              THEN << "Skipped: ", ToString(Len(partSkippedFiles)), " files", "\n" >>
              ELSE << >>)
          \o (IF filesSkipped > 0
              THEN << "Truncated: ", ToString(filesSkipped),
                      " files (exceeded max_files limit of ",
                      ToString(partMaxFiles), ")", "\n" >>
              ELSE << >>)
          \o << "Patterns: " >> \o JoinWith(partPatterns, ", ") \o << "\n", "\n" >>
          \o (IF Len(processedFiles) > 0
              THEN << "PROCESSED FILES:", "\n" >>
                   \o PartProcessedLines(processedFiles) \o << "\n" >>
              ELSE << >>)
          \o (IF Len(partSkippedFiles) > 0
              THEN << "SKIPPED FILES:", "\n" >>
                   \o PartSkippedLines(slice(partSkippedFiles, MaxListedPartSkips))
                   \o (IF Len(partSkippedFiles) > MaxListedPartSkips
                       THEN << "- ...and ",
                               ToString(Len(partSkippedFiles) - MaxListedPartSkips),
                               " more", "\n" >>
                       ELSE << >>)
                   \o << "\n" >>
              ELSE << >>)
          \o << "=== FILE CONTENTS ===", "\n", "\n" >>
     ELSE << >>)
    \o (IF Len(partResults) > 0
        THEN JoinWith(partResults, "\n")
             \o (IF include_file_info
                 THEN << "\n", "\n", "=== END OF FILES ===" >> ELSE << >>)
        ELSE << "No file content was successfully read." >>)

\* The loop is over: the output is built and returned (lines 297-353).
PartFinish ==
    /\ partPc = "loop"
    /\ fileIndex > Len(filesToProcess)
    /\ partPc' = "done"
    /\ partText' = FinalOutput
    /\ UNCHANGED << partPatterns, partMaxFiles, max_file_size, include_file_info,
                    filesToProcess, filesSkipped, fileIndex, openDescriptors,
                    partResults, processedFiles, partSkippedFiles >>

(***************************************************************************)
(* The read_file handler of read-file.tool.js: environment                 *)
(***************************************************************************)

\* An optional number that is absent, and one that is present
undefined == << >>
Given(n) == << n >>

\* The smaller of two numbers: Math.min
Min(a, b) == IF a < b THEN a ELSE b

\* arr.slice(start, end), on an array or a string
sliceRange(arr, start, end) ==
    LET from == IF start < 0
                THEN (IF Len(arr) + start < 0 THEN 0 ELSE Len(arr) + start)
                ELSE (IF start > Len(arr) THEN Len(arr) ELSE start)
        to   == IF end < 0
                THEN (IF Len(arr) + end < 0 THEN 0 ELSE Len(arr) + end)
                ELSE (IF end > Len(arr) THEN Len(arr) ELSE end)
    IN  SubSeq(arr, from + 1, to)

RECURSIVE JoinRange(_, _, _)
\* lines.join('\n') of the lines from..to of an array, halving the range
JoinRange(lines, from, to) ==
    IF from > to THEN << >>
    ELSE IF from = to THEN lines[from]
    ELSE LET mid == (from + to) \div 2
         IN  JoinRange(lines, from, mid) \o << "\n" >> \o JoinRange(lines, mid + 1, to)

\* lines.join('\n')
join(lines) == JoinRange(lines, 1, Len(lines))

RECURSIVE SplitRange(_, _, _)
\* content.split('\n') of the characters from..to of a string, halving the
\* range: the last line of the left half continues in the first of the right
SplitRange(content, from, to) ==
    IF from > to THEN << << >> >>
    ELSE IF from = to
         THEN (IF content[from] = "\n" THEN << << >>, << >> >>
               ELSE << << content[from] >> >>)
    ELSE LET mid == (from + to) \div 2
             left == SplitRange(content, from, mid)
             right == SplitRange(content, mid + 1, to)
         IN  SubSeq(left, 1, Len(left) - 1)
             \o << left[Len(left)] \o right[1] >>
             \o SubSeq(right, 2, Len(right))

\* content.split('\n')
split(content) == SplitRange(content, 1, Len(content))

\* The lines above which a file read without a limit is cut (line 35)
maxLines == 1000

\* n lines, each holding its 0-based number
NumberedLines(n) == [i \in 1..n |-> << ToString(i - 1) >>]

ReadFileEmpty   == << "/", "r", "/", "e" >>
ReadFileShort   == << "/", "r", "/", "s" >>
ReadFileNewline == << "/", "r", "/", "n" >>
ReadFileMedium  == << "/", "r", "/", "m" >>
ReadFileLong    == << "/", "r", "/", "l" >>

\* The files read_file is called on
ReadFilePaths ==
    { ReadFileEmpty, ReadFileShort, ReadFileNewline, ReadFileMedium, ReadFileLong }

\* readFileSync(absolute_path, 'utf-8'): an empty file, files of three and of
\* five lines, a file that ends with a newline, and a file of one line more
\* than maxLines
ReadFileText ==
    [p \in ReadFilePaths |->
        CASE p = ReadFileEmpty   -> << >>
          [] p = ReadFileShort   -> join(NumberedLines(3))
          [] p = ReadFileNewline -> join(NumberedLines(2)) \o << "\n" >>
          [] p = ReadFileMedium  -> join(NumberedLines(5))
          [] OTHER               -> join(NumberedLines(maxLines + 1))]

\* fileContent.split('\n') of each file (line 14)
ReadFileLines == [p \in ReadFilePaths |-> split(ReadFileText[p])]

\* The message of the error readFileSync raises
ReadFileErrorMessage == << "ENOENT: no such file or directory" >>

(***************************************************************************)
(* Bounds                                                                  *)
(***************************************************************************)

\* The largest offset and the largest limit of a first call
MaxOffset == 3
MaxLimit == 3
\* The calls a client makes in a row on one file
MaxCalls == 8

(***************************************************************************)
(* The read_file handler: state                                            *)
(***************************************************************************)

VARIABLES
    absolute_path,
    readOffset,         \* offset: undefined or Given(n)
    readLimit,          \* limit: undefined or Given(n)
    readPc,             \* "idle", "call", "done"
    readPages,          \* what the calls made so far on the file computed
    readText            \* content[0].text of the value returned last

readVars ==
    << absolute_path, readOffset, readLimit, readPc, readPages, readText >>

\* The handler is not running.
ReadIdle ==
    /\ absolute_path = << >>
    /\ readOffset = undefined
    /\ readLimit = undefined
    /\ readPc = "idle"
    /\ readPages = << >>
    /\ readText = << >>

\* The parameters of a first call
ReadOffsetChoices == {undefined} \cup { Given(n) : n \in 0..MaxOffset }
                     \cup {Given(maxLines), Given(maxLines + 1)}
ReadLimitChoices == {undefined} \cup { Given(n) : n \in 0..MaxLimit }
                    \cup {Given(maxLines)}

InitRead ==
    /\ absolute_path \in ReadFilePaths
    /\ readOffset \in ReadOffsetChoices
    /\ readLimit \in ReadLimitChoices
    /\ readPc = "call"
    /\ readPages = << >>
    /\ readText = << >>

(***************************************************************************)
(* The read_file handler (lines 10-74)                                     *)
(***************************************************************************)

\* nextOffset when the offset of the call is not added to the lines shown
NextOffsetWithoutOffset(offset, startLine, endLine) ==
    endLine - startLine + 1

\* nextOffset (line 44); an offset of 0, like an absent one, is falsy
NextOffset(offset, startLine, endLine) ==
    IF offset # undefined /\ offset[1] # 0
    THEN offset[1] + (endLine - startLine + 1)
    ELSE endLine + 1

\* What the handler computes for a file, an offset and a limit (lines 13-52)
ReadPage(path, offset, limit) ==
    LET fileContent == ReadFileText[path]
        lines == ReadFileLines[path]
        totalLines == Len(lines)
        both == offset # undefined /\ limit # undefined
        onlyLimit == ~both /\ limit # undefined
        tooLarge == ~both /\ ~onlyLimit /\ totalLines > maxLines
        startLine == IF both THEN offset[1] ELSE 0
        endLine ==
            IF both THEN Min(offset[1] + limit[1] - 1, totalLines - 1)
            ELSE IF onlyLimit THEN Min(limit[1] - 1, totalLines - 1)
            ELSE IF tooLarge THEN maxLines - 1
            ELSE totalLines - 1
        content ==
            IF both THEN join(sliceRange(lines, startLine, endLine + 1))
            ELSE IF onlyLimit THEN join(sliceRange(lines, 0, endLine + 1))
            ELSE IF tooLarge THEN join(sliceRange(lines, 0, maxLines))
            ELSE fileContent
        isTruncated ==
            IF both \/ onlyLimit THEN endLine < totalLines - 1 ELSE tooLarge
        nextOffset == NextOffset(offset, startLine, endLine)
    IN  [ offset |-> offset,
          limit |-> limit,
          startLine |-> startLine,
          endLine |-> endLine,
          totalLines |-> totalLines,
          content |-> content,
          isTruncated |-> isTruncated,
          nextOffset |-> nextOffset,
          text |->
              IF isTruncated
              THEN << "\n", "IMPORTANT: The file content has been truncated.", "\n",
                      "Status: Showing lines ", ToString(startLine + 1), "-",
                      ToString(endLine + 1), " of ", ToString(totalLines),
                      " total lines.", "\n",
                      "Action: To read more of the file, you can use the 'offset' and 'limit' parameters in a subsequent 'read_file' call. For example, to read the next section of the file, use offset: ",
                      ToString(nextOffset), ".", "\n", "\n",
                      "--- FILE CONTENT (truncated) ---", "\n" >> \o content
              ELSE content ]

\* The handler reads the file and returns a page of it (lines 11-62).
ReadFileCall ==
    /\ readPc = "call"
    /\ LET page == ReadPage(absolute_path, readOffset, readLimit)
       IN  /\ readPages' = Append(readPages, page)
           /\ readText' = page.text
    /\ readPc' = "done"
    /\ UNCHANGED << absolute_path, readOffset, readLimit >>

\* readFileSync throws and the handler returns the error text (lines 64-73).
ReadFileThrows ==
    /\ readPc = "call"
    /\ readText' = << "Error reading file: " >> \o ReadFileErrorMessage
    /\ readPc' = "done"
    /\ UNCHANGED << absolute_path, readOffset, readLimit, readPages >>

\* The client, told that the content was truncated, calls again on the same
\* file with the offset the response advertised and the limit it used.
ClientFollows ==
    /\ readPc = "done"
    /\ readPages # << >>
    /\ Len(readPages) < MaxCalls
    /\ LET last == readPages[Len(readPages)]
       IN  /\ readText = last.text
           /\ last.isTruncated
           /\ readOffset' = Given(last.nextOffset)
    /\ readPc' = "call"
    /\ UNCHANGED << absolute_path, readLimit, readPages, readText >>

(***************************************************************************)
(* The run_shell_command handler of part_002: state                        *)
(***************************************************************************)

VARIABLES
    command,
    directoryKind,      \* what statSync(workingDir) finds: "directory", "file", "missing"
    timeout,
    isWindows,
    spawnFails,         \* the shell cannot be started: the child emits 'error'
    ignoresTerm,        \* the command of the child traps SIGTERM and goes on
    shellPc,            \* "idle", "call", "running", "done"
    child,              \* "none", "failed", "running", "exited", "closed"
    exitCode,           \* undefined (null) or Given(n)
    exitSignal,         \* "" (null) or the signal that ended the child
    deliveredSignal,    \* "" or the last signal delivered to the running child
    childKilled,        \* child.killed
    signalsSent,        \* the signals child.kill has sent
    timeoutArmed,       \* the timer of line 92 is pending
    killTimerArmed,     \* the timer of line 97 is pending
    isTimedOut,
    stdout,
    resolveCalls,       \* the calls of resolve, and the returns of the handler
    shellText           \* content[0].text of the value the handler returned

shellVars ==
    << command, directoryKind, timeout, isWindows, spawnFails, ignoresTerm,
       shellPc, child, exitCode, exitSignal, deliveredSignal, childKilled,
       signalsSent, timeoutArmed, killTimerArmed, isTimedOut, stdout,
       resolveCalls, shellText >>

\* What a call leaves unchanged: its parameters and its environment
shellCallVars ==
    << command, directoryKind, timeout, isWindows, spawnFails, ignoresTerm >>

\* The state of a handler that has not spawned a child
NoChild ==
    /\ child = "none"
    /\ exitCode = undefined
    /\ exitSignal = ""
    /\ deliveredSignal = ""
    /\ childKilled = FALSE
    /\ signalsSent = << >>
    /\ timeoutArmed = FALSE
    /\ killTimerArmed = FALSE
    /\ isTimedOut = FALSE
    /\ stdout = << >>
    /\ resolveCalls = 0
    /\ shellText = << >>

\* The handler is not running.
ShellIdle ==
    /\ command = << >>
    /\ directoryKind = "directory"
    /\ timeout = 0
    /\ isWindows = FALSE
    /\ spawnFails = FALSE
    /\ ignoresTerm = FALSE
    /\ shellPc = "idle"
    /\ NoChild

\* The commands of a call: a blank one and one to run
ShellCommandChoices == { << " " >>, << "c" >> }
\* The timeouts of a call: a short one and the default (line 35)
ShellTimeoutChoices == { 1, 30000 }
\* The chunks of output a child writes at most
MaxOutput == 2

InitShell ==
    /\ command \in ShellCommandChoices
    /\ directoryKind \in {"directory", "file", "missing"}
    /\ timeout \in ShellTimeoutChoices
    /\ isWindows \in BOOLEAN
    /\ spawnFails \in BOOLEAN
    /\ ignoresTerm \in BOOLEAN
    /\ shellPc = "call"
    /\ NoChild

(***************************************************************************)
(* The run_shell_command handler of part_002 (lines 35-179)                *)
(***************************************************************************)

\* process.cwd(), the working directory of a call without a directory
workingDir == << "/", "w" >>

\* The handler returns without spawning: the command is blank (lines 37-46)
\* or the working directory is not a directory (lines 52-74).
ShellRejects ==
    /\ shellPc = "call"
    /\ trim(command) = << >> \/ directoryKind # "directory"
    /\ shellText' =
          IF trim(command) = << >>
          THEN << "Error: Command cannot be empty." >>
          ELSE IF directoryKind = "file"
          THEN << "Error: Specified directory is not a directory: " >> \o workingDir
          ELSE << "Error: Directory does not exist or is not accessible: " >>
               \o workingDir
    /\ resolveCalls' = resolveCalls + 1
    /\ shellPc' = "done"
    /\ UNCHANGED << shellCallVars, child, exitCode, exitSignal, deliveredSignal,
                    childKilled, signalsSent, timeoutArmed, killTimerArmed,
                    isTimedOut, stdout >>

\* The child is spawned, the timeout timer is set and the listeners are
\* registered (lines 80-165).
ShellSpawns ==
    /\ shellPc = "call"
    /\ trim(command) # << >>
    /\ directoryKind = "directory"
    /\ child' = IF spawnFails THEN "failed" ELSE "running"
    /\ timeoutArmed' = TRUE
    /\ shellPc' = "running"
    /\ UNCHANGED << shellCallVars, exitCode, exitSignal, deliveredSignal,
                    childKilled, signalsSent, killTimerArmed, isTimedOut, stdout,
                    resolveCalls, shellText >>

\* The child that could not be started emits 'error' (lines 155-165).
ChildError ==
    /\ shellPc = "running"
    /\ child = "failed"
    /\ timeoutArmed' = FALSE
    /\ shellText' = << "Error executing command: ", "spawn ENOENT", "\n",
                       "Command: " >> \o command
                    \o << "\n", "Directory: " >> \o workingDir
    /\ resolveCalls' = resolveCalls + 1
    /\ shellPc' = "done"
    /\ child' = "closed"
    /\ UNCHANGED << shellCallVars, exitCode, exitSignal, deliveredSignal,
                    childKilled, signalsSent, killTimerArmed, isTimedOut, stdout >>

\* The child writes to its standard output (lines 105-107); the child of the
\* model writes nothing to its standard error.
ChildWrites ==
    /\ child = "running"
    /\ Len(stdout) < MaxOutput
    /\ stdout' = Append(stdout, "o")
    /\ UNCHANGED << shellCallVars, shellPc, child, exitCode, exitSignal,
                    deliveredSignal, childKilled, signalsSent, timeoutArmed,
                    killTimerArmed, isTimedOut, resolveCalls, shellText >>

\* The command ends by itself, with exit code 0 or 1.
ChildExits ==
    /\ child = "running"
    /\ \E code \in {0, 1} : exitCode' = Given(code)
    /\ child' = "exited"
    /\ UNCHANGED << shellCallVars, shellPc, exitSignal, deliveredSignal,
                    childKilled, signalsSent, timeoutArmed, killTimerArmed,
                    isTimedOut, stdout, resolveCalls, shellText >>

\* A delivered signal ends the child: SIGKILL always, SIGTERM unless the
\* command traps it.
ChildDiesOfSignal ==
    /\ child = "running"
    /\ deliveredSignal # ""
    /\ deliveredSignal = "SIGKILL" \/ ~ignoresTerm
    /\ exitSignal' = deliveredSignal
    /\ child' = "exited"
    /\ UNCHANGED << shellCallVars, shellPc, exitCode, deliveredSignal,
                    childKilled, signalsSent, timeoutArmed, killTimerArmed,
                    isTimedOut, stdout, resolveCalls, shellText >>

\* child.kill(signal): the signal is sent and child.killed is set if the
\* child still runs; if it has ended, nothing is sent and kill returns false.
KillSends(sig) ==
    IF child = "running"
    THEN /\ signalsSent' = Append(signalsSent, sig)
         /\ deliveredSignal' = sig
         /\ childKilled' = TRUE
    ELSE UNCHANGED << signalsSent, deliveredSignal, childKilled >>

\* The timeout elapses (lines 92-102): SIGTERM, and the second timer is set.
TimeoutFires ==
    /\ timeoutArmed
    /\ timeoutArmed' = FALSE
    /\ isTimedOut' = TRUE
    /\ KillSends("SIGTERM")
    /\ killTimerArmed' = TRUE
    /\ UNCHANGED << shellCallVars, shellPc, child, exitCode, exitSignal, stdout,
                    resolveCalls, shellText >>

\* Five seconds after the timeout (lines 97-101): SIGKILL unless child.killed
KillTimerFires ==
    /\ killTimerArmed
    /\ killTimerArmed' = FALSE
    /\ IF ~childKilled
       THEN KillSends("SIGKILL")
       ELSE UNCHANGED << signalsSent, deliveredSignal, childKilled >>
    /\ UNCHANGED << shellCallVars, shellPc, child, exitCode, exitSignal,
                    timeoutArmed, isTimedOut, stdout, resolveCalls, shellText >>

\* resultText (lines 118-142)
ResultText ==
    (IF isTimedOut
     THEN << "Command timed out after ", ToString(timeout),
             "ms and was terminated.", "\n" >>
     ELSE << >>)
    \o << "Command: " >> \o command
    \o << "\n", "Directory: " >> \o workingDir
    \o << "\n", "Platform: ",
          IF isWindows THEN "Windows (cmd.exe)" ELSE "Unix (bash)" >>
    \o << "\n", "Exit Code: ",
          IF exitCode # undefined THEN ToString(exitCode[1])
          ELSE "(terminated by signal)" >>
    \o << "\n", "Signal: ", IF exitSignal # "" THEN exitSignal ELSE "(none)" >>
    \o << "\n", "Stdout: " >> \o (IF stdout # << >> THEN stdout ELSE << "(empty)" >>)
    \o << "\n", "Stderr: ", "(empty)" >>
    \o << "\n",
          IF isTimedOut THEN "Status: TIMEOUT"
          ELSE IF exitCode = Given(0) THEN "Status: SUCCESS"
          ELSE "Status: ERROR" >>

\* The child has ended and its streams are closed: 'close' (lines 115-152).
ChildCloses ==
    /\ child = "exited"
    /\ timeoutArmed' = FALSE
    /\ shellText' = IF resolveCalls = 0 THEN ResultText ELSE shellText
    /\ resolveCalls' = resolveCalls + 1
    /\ shellPc' = "done"
    /\ child' = "closed"
    /\ UNCHANGED << shellCallVars, exitCode, exitSignal, deliveredSignal,
                    childKilled, signalsSent, killTimerArmed, isTimedOut, stdout >>

(***************************************************************************)
(* The write_file handler of part_002: environment and state               *)
(***************************************************************************)

\* path.dirname of an absolute path without a trailing slash
dirname(p) ==
    LET slashes == { i \in 1..Len(p) : p[i] = "/" }
        last == CHOOSE i \in slashes : \A j \in slashes : j <= i
    IN  IF last = 1 THEN << "/" >> ELSE SubSeq(p, 1, last - 1)

\* The directories above a path, the root included
Ancestors(p) ==
    { << "/" >> } \cup { SubSeq(p, 1, i - 1) : i \in { j \in 2..Len(p) : p[j] = "/" } }

\* A UTF-16 code unit that is half of a pair and stands alone in a string, and
\* the character U+FFFD that replaces it when the string is encoded
LoneSurrogate == "\\uD800"
ReplacementCharacter == "\\uFFFD"

\* The string the bytes of a file decode to after the string s was written
\* with the 'utf-8' encoding: a lone surrogate has no encoding and is written
\* as U+FFFD.
utf8(s) ==
    [i \in 1..Len(s) |-> IF s[i] = LoneSurrogate THEN ReplacementCharacter ELSE s[i]]

WritePathG  == << "/", "g" >>
WritePathGH == << "/", "g", "/", "h" >>
WritePathD  == << "/", "d" >>
WritePathDF == << "/", "d", "/", "f" >>

\* The parameters of a call
WritePathChoices == { WritePathG, WritePathGH, WritePathD, WritePathDF }
WriteContentChoices == { << >>, << "a" >>, << "b", LoneSurrogate >> }
OverwriteChoices == { undefined, Given(FALSE), Given(TRUE) }

\* The calls made in a row
MaxWrites == 2

VARIABLES
    fsFiles,            \* the files that exist: path -> the text the file holds
    fsDirs,             \* the directories that exist
    file_path,          \* the parameters of the last call
    writeContent,       \* content
    overwrite,
    fsBefore,           \* the files and directories before the last call
    writeOutcomes,      \* what each call so far returned: "exists", "success", "error"
    writeText           \* content[0].text of the value returned last

writeVars ==
    << fsFiles, fsDirs, file_path, writeContent, overwrite, fsBefore,
       writeOutcomes, writeText >>

\* No file
NoFiles == [p \in {} |-> << >>]

\* The handler is not running.
WriteIdle ==
    /\ fsFiles = NoFiles
    /\ fsDirs = {}
    /\ file_path = << >>
    /\ writeContent = << >>
    /\ overwrite = undefined
    /\ fsBefore = << NoFiles, {} >>
    /\ writeOutcomes = << >>
    /\ writeText = << >>

\* The file systems the first call finds: an empty root, a root with the
\* file /g, and a root with the directory /d and the file /d/f in it
InitWrite ==
    /\ \/ fsFiles = NoFiles /\ fsDirs = { << "/" >> }
       \/ fsFiles = (WritePathG :> << "a" >>) /\ fsDirs = { << "/" >> }
       \/ fsFiles = (WritePathDF :> << "b" >>) /\ fsDirs = { << "/" >>, WritePathD }
    /\ file_path = << >>
    /\ writeContent = << >>
    /\ overwrite = undefined
    /\ fsBefore = << fsFiles, fsDirs >>
    /\ writeOutcomes = << >>
    /\ writeText = << >>

(***************************************************************************)
(* The write_file handler of part_002 (lines 196-242)                      *)
(***************************************************************************)

\* existsSync(p), on the file system of write_file
pathExists(p) == p \in DOMAIN fsFiles \/ p \in fsDirs

\* The check of line 199 lets every call with any path through.
WriteRefusedNever(p, flag) == FALSE

\* The check of line 199: !overwrite && existsSync(file_path)
WriteRefused(p, flag) == flag # Given(TRUE) /\ pathExists(p)

\* mkdirSync(dir, { recursive: true }) can create dir: nothing above it, and
\* not dir itself, is a file.
CanMkdir(dir) == (Ancestors(dir) \cup {dir}) \cap DOMAIN fsFiles = {}

\* The directories after lines 211-214
DirsAfterMkdir(p) ==
    IF pathExists(dirname(p)) THEN fsDirs
    ELSE fsDirs \cup Ancestors(dirname(p)) \cup { dirname(p) }

\* What a call records whatever it returns
WriteCalled(p, c, flag, outcome) ==
    /\ Len(writeOutcomes) < MaxWrites
    /\ file_path' = p
    /\ writeContent' = c
    /\ overwrite' = flag
    /\ fsBefore' = << fsFiles, fsDirs >>
    /\ writeOutcomes' = Append(writeOutcomes, outcome)

\* The path exists and overwrite is not set: the handler returns the error
\* of lines 200-207.
WriteRejectsExisting ==
    \E p \in WritePathChoices, c \in WriteContentChoices, flag \in OverwriteChoices :
        /\ WriteRefused(p, flag)
        /\ WriteCalled(p, c, flag, "exists")
        /\ writeText' = << "Error: File already exists at " >> \o p
                        \o << ". Set overwrite=true to overwrite it." >>
        /\ UNCHANGED << fsFiles, fsDirs >>

\* mkdirSync throws (line 213): the handler returns the error of lines
\* 232-240 and nothing was created.
WriteMkdirThrows ==
    \E p \in WritePathChoices, c \in WriteContentChoices, flag \in OverwriteChoices :
        /\ ~WriteRefused(p, flag)
        /\ ~pathExists(dirname(p))
        /\ WriteCalled(p, c, flag, "error")
        /\ writeText' = << "Error writing to file: ", "EACCES: permission denied" >>
        /\ UNCHANGED << fsFiles, fsDirs >>

\* writeFileSync throws (line 217), as it must when the path is a directory or
\* lies below a file: the directory of lines 211-214 may have been created.
WriteFileThrows ==
    \E p \in WritePathChoices, c \in WriteContentChoices, flag \in OverwriteChoices :
        /\ ~WriteRefused(p, flag)
        /\ pathExists(dirname(p)) \/ CanMkdir(dirname(p))
        /\ WriteCalled(p, c, flag, "error")
        /\ fsDirs' = DirsAfterMkdir(p)
        /\ writeText' = << "Error writing to file: ", "EACCES: permission denied" >>
        /\ UNCHANGED fsFiles

\* The directory is there or is created, the file is written and the
\* handler reports success (lines 211-231).
WriteSucceeds ==
    \E p \in WritePathChoices, c \in WriteContentChoices, flag \in OverwriteChoices :
        /\ ~WriteRefused(p, flag)
        /\ pathExists(dirname(p)) \/ CanMkdir(dirname(p))
        /\ dirname(p) \in DirsAfterMkdir(p)
        /\ p \notin fsDirs
        /\ WriteCalled(p, c, flag, "success")
        /\ fsDirs' = DirsAfterMkdir(p)
        /\ fsFiles' = [q \in DOMAIN fsFiles \cup {p} |->
                          IF q = p THEN utf8(c) ELSE fsFiles[q]]
        /\ writeText' = << "Successfully wrote to file: " >> \o p

(***************************************************************************)
(* The web_fetch handler of web-fetch.tool.ts: environment and state       *)
(***************************************************************************)

\* The characters above which content fetched without a limit is cut
\* (line 150)
maxChars == 100000

\* The text convert(html) returns: nothing, five characters, and one
\* character more than maxChars
FetchTextChoices ==
    { << >>, << "a", "b", "c", "d", "e" >>, [i \in 1..(maxChars + 1) |-> "x"] }

VARIABLES
    textContent,
    fetchOffset,        \* offset: undefined or Given(n)
    fetchLimit,         \* limit: undefined or Given(n)
    fetchPc,            \* "idle", "call", "done"
    fetchPages,         \* what the call computed, once it has
    fetchText           \* content[0].text of the value returned

fetchVars ==
    << textContent, fetchOffset, fetchLimit, fetchPc, fetchPages, fetchText >>

\* The handler is not running.
FetchIdle ==
    /\ textContent = << >>
    /\ fetchOffset = undefined
    /\ fetchLimit = undefined
    /\ fetchPc = "idle"
    /\ fetchPages = << >>
    /\ fetchText = << >>

\* The parameters of a call
FetchOffsetChoices == {undefined} \cup { Given(n) : n \in 0..MaxOffset }
FetchLimitChoices == {undefined} \cup { Given(n) : n \in 0..MaxLimit }

InitFetch ==
    /\ textContent \in FetchTextChoices
    /\ fetchOffset \in FetchOffsetChoices
    /\ fetchLimit \in FetchLimitChoices
    /\ fetchPc = "call"
    /\ fetchPages = << >>
    /\ fetchText = << >>

(***************************************************************************)
(* The web_fetch handler (lines 90-199)                                    *)
(***************************************************************************)

\* What the handler computes for a text, an offset and a limit (lines
\* 131-173)
FetchPage(text, offset, limit) ==
    LET totalChars == Len(text)
        both == offset # undefined /\ limit # undefined
        onlyLimit == ~both /\ limit # undefined
        tooLarge == ~both /\ ~onlyLimit /\ totalChars > maxChars
        startChar == IF both THEN offset[1] ELSE 0
        endChar ==
            IF both THEN Min(offset[1] + limit[1] - 1, totalChars - 1)
            ELSE IF onlyLimit THEN Min(limit[1] - 1, totalChars - 1)
            ELSE IF tooLarge THEN maxChars - 1
            ELSE totalChars - 1
        content ==
            IF both THEN sliceRange(text, startChar, endChar + 1)
            ELSE IF onlyLimit THEN sliceRange(text, 0, endChar + 1)
            ELSE IF tooLarge THEN sliceRange(text, 0, maxChars)
            ELSE text
        isTruncated ==
            IF both \/ onlyLimit THEN endChar < totalChars - 1 ELSE tooLarge
        nextOffset ==
            IF offset # undefined /\ offset[1] # 0
            THEN offset[1] + (endChar - startChar + 1)
            ELSE endChar + 1
    IN  [ offset |-> offset,
          limit |-> limit,
          startChar |-> startChar,
          endChar |-> endChar,
          totalChars |-> totalChars,
          content |-> content,
          isTruncated |-> isTruncated,
          nextOffset |-> nextOffset,
          text |->
              IF isTruncated
              THEN << "\n", "IMPORTANT: The content has been truncated.", "\n",
                      "Status: Showing characters ", ToString(startChar + 1), "-",
                      ToString(endChar + 1), " of ", ToString(totalChars),
                      " total characters.", "\n",
                      "Action: To read more of the content, use the 'offset' and 'limit' parameters in a subsequent 'web_fetch' call. For example, use offset: ",
                      ToString(nextOffset), ".", "\n", "\n",
                      "--- WEB CONTENT (truncated) ---", "\n" >> \o content
              ELSE content ]

\* The page is fetched and converted and a range of its text is returned
\* (lines 91-186).
WebFetchCall ==
    /\ fetchPc = "call"
    /\ LET page == FetchPage(textContent, fetchOffset, fetchLimit)
       IN  /\ fetchPages' = << page >>
           /\ fetchText' = page.text
    /\ fetchPc' = "done"
    /\ UNCHANGED << textContent, fetchOffset, fetchLimit >>

\* The prompt holds no URL, the address is private, or the request fails: the
\* handler returns the error text (lines 95-121, 187-198).
WebFetchFails ==
    /\ fetchPc = "call"
    /\ fetchText' = << "Error fetching content: ",
                       "Request failed with status code 404 Not Found" >>
    /\ fetchPc' = "done"
    /\ UNCHANGED << textContent, fetchOffset, fetchLimit, fetchPages >>

(***************************************************************************)
(* The components specified after execute and the two read_many_files      *)
(* handlers: their state, and the state in which none of them runs         *)
(***************************************************************************)

laterVars == << readVars, shellVars, writeVars, fetchVars >>

LaterIdle == ReadIdle /\ ShellIdle /\ WriteIdle /\ FetchIdle

(***************************************************************************)
(* Specifications                                                          *)
(***************************************************************************)

vars == << execVars, toolVars, partVars, laterVars >>

Init == InitExec /\ ToolIdle /\ PartIdle /\ LaterIdle

Next ==
    \/ Execute /\ UNCHANGED << toolVars, partVars, laterVars >>
    \/ GlobRejects /\ UNCHANGED << toolVars, partVars, laterVars >>
    \/ GlobResolves /\ UNCHANGED << toolVars, partVars, laterVars >>
    \/ GlobResolvesLast /\ UNCHANGED << toolVars, partVars, laterVars >>
    \/ DetectThrows /\ UNCHANGED << toolVars, partVars, laterVars >>
    \/ AssetNotRequested /\ UNCHANGED << toolVars, partVars, laterVars >>
    \/ DetectThenRead /\ UNCHANGED << toolVars, partVars, laterVars >>
    \/ ReadReturnsError /\ UNCHANGED << toolVars, partVars, laterVars >>
    \/ ReadThrows /\ UNCHANGED << toolVars, partVars, laterVars >>
    \/ ReadReturns /\ UNCHANGED << toolVars, partVars, laterVars >>
    \/ Assemble /\ UNCHANGED << toolVars, partVars, laterVars >>

\* ReadManyFilesToolInvocation.execute
Spec == Init /\ [][Next]_vars

NextTool ==
    \/ ToolCall /\ UNCHANGED << execVars, partVars, laterVars >>
    \/ ToolGlobRejects /\ UNCHANGED << execVars, partVars, laterVars >>
    \/ ToolGlobResolves /\ UNCHANGED << execVars, partVars, laterVars >>

InitHandler == InitTool /\ ExecIdle /\ PartIdle /\ LaterIdle

\* The read_many_files handler of read-many-files.tool.js
SpecTool == InitHandler /\ [][NextTool]_vars

InitWithExcludes == InitExcludes /\ ToolIdle /\ PartIdle /\ LaterIdle

\* ReadManyFilesToolInvocation.execute called with exclude patterns and with
\* or without the default excludes
SpecExcludes == InitWithExcludes /\ [][Next]_vars

NextCancel ==
    \/ Next
    \/ Abort /\ UNCHANGED << toolVars, partVars, laterVars >>

\* ReadManyFilesToolInvocation.execute with a cancellation signal that may
\* fire
SpecCancel == Init /\ [][NextCancel]_vars

NextPart ==
    \/ PartCall /\ UNCHANGED << execVars, toolVars, laterVars >>
    \/ PartGlobRejects /\ UNCHANGED << execVars, toolVars, laterVars >>
    \/ PartGlobResolves /\ UNCHANGED << execVars, toolVars, laterVars >>
    \/ PartStatThrows /\ UNCHANGED << execVars, toolVars, laterVars >>
    \/ PartOpenThrows /\ UNCHANGED << execVars, toolVars, laterVars >>
    \/ PartReadSyncThrows /\ UNCHANGED << execVars, toolVars, laterVars >>
    \/ PartReadTruncated /\ UNCHANGED << execVars, toolVars, laterVars >>
    \/ PartSkipNonText /\ UNCHANGED << execVars, toolVars, laterVars >>
    \/ PartReadFileThrows /\ UNCHANGED << execVars, toolVars, laterVars >>
    \/ PartReadFile /\ UNCHANGED << execVars, toolVars, laterVars >>
    \/ PartFinish /\ UNCHANGED << execVars, toolVars, laterVars >>

InitPartHandler == InitPart /\ ExecIdle /\ ToolIdle /\ LaterIdle

\* The read_many_files handler of part_001
SpecPart == InitPartHandler /\ [][NextPart]_vars

InitJoin ==
    /\ \E n \in 0..MaxJoinProcessed : \E f \in 0..MaxJoinSkipped : JoinState(n, f)
    /\ ToolIdle
    /\ PartIdle
    /\ LaterIdle

NextJoin ==
    \/ Assemble /\ UNCHANGED << toolVars, partVars, laterVars >>

\* The join and the assembly of execute for up to MaxJoinProcessed read and
\* MaxJoinSkipped unread files
SpecJoin == InitJoin /\ [][NextJoin]_vars

\* The state in which neither execute nor a read_many_files handler runs
EarlierIdle == ExecIdle /\ ToolIdle /\ PartIdle

earlierVars == << execVars, toolVars, partVars >>

NextRead ==
    \/ ReadFileCall /\ UNCHANGED << earlierVars, shellVars, writeVars, fetchVars >>
    \/ ReadFileThrows /\ UNCHANGED << earlierVars, shellVars, writeVars, fetchVars >>
    \/ ClientFollows /\ UNCHANGED << earlierVars, shellVars, writeVars, fetchVars >>

InitReadHandler == InitRead /\ EarlierIdle /\ ShellIdle /\ WriteIdle /\ FetchIdle

\* The read_file handler, called again and again by a client that follows
\* the offsets it advertises
SpecRead == InitReadHandler /\ [][NextRead]_vars

\* A step of the run_shell_command handler changes nothing else.
ShellFrame == UNCHANGED << earlierVars, readVars, writeVars, fetchVars >>

NextShell ==
    \/ ShellRejects /\ ShellFrame
    \/ ShellSpawns /\ ShellFrame
    \/ ChildError /\ ShellFrame
    \/ ChildWrites /\ ShellFrame
    \/ ChildExits /\ ShellFrame
    \/ ChildDiesOfSignal /\ ShellFrame
    \/ TimeoutFires /\ ShellFrame
    \/ KillTimerFires /\ ShellFrame
    \/ ChildCloses /\ ShellFrame

InitShellHandler == InitShell /\ EarlierIdle /\ ReadIdle /\ WriteIdle /\ FetchIdle

\* The run_shell_command handler of part_002
SpecShell == InitShellHandler /\ [][NextShell]_vars

\* The handler, the event loop and the operating system take the steps they
\* can take: a return, a spawn, an event that is due, a timer that is set, the
\* end of a child that a signal ends. Nothing makes a command write or end by
\* itself.
ShellFairness ==
    /\ WF_vars(ShellRejects /\ ShellFrame)
    /\ WF_vars(ShellSpawns /\ ShellFrame)
    /\ WF_vars(ChildError /\ ShellFrame)
    /\ WF_vars(ChildDiesOfSignal /\ ShellFrame)
    /\ WF_vars(TimeoutFires /\ ShellFrame)
    /\ WF_vars(KillTimerFires /\ ShellFrame)
    /\ WF_vars(ChildCloses /\ ShellFrame)

\* The run_shell_command handler of part_002 under that scheduling
SpecShellFair == SpecShell /\ ShellFairness

NextWrite ==
    \/ WriteRejectsExisting /\ UNCHANGED << earlierVars, readVars, shellVars, fetchVars >>
    \/ WriteMkdirThrows /\ UNCHANGED << earlierVars, readVars, shellVars, fetchVars >>
    \/ WriteFileThrows /\ UNCHANGED << earlierVars, readVars, shellVars, fetchVars >>
    \/ WriteSucceeds /\ UNCHANGED << earlierVars, readVars, shellVars, fetchVars >>

InitWriteHandler == InitWrite /\ EarlierIdle /\ ReadIdle /\ ShellIdle /\ FetchIdle

\* The write_file handler of part_002, called up to MaxWrites times in a row
SpecWrite == InitWriteHandler /\ [][NextWrite]_vars

\* A call of read_file, followed up by the client, or a call of web_fetch
InitPaging ==
    /\ EarlierIdle
    /\ ShellIdle
    /\ WriteIdle
    /\ \/ InitRead /\ FetchIdle
       \/ ReadIdle /\ InitFetch

NextPaging ==
    \/ NextRead
    \/ WebFetchCall /\ UNCHANGED << earlierVars, readVars, shellVars, writeVars >>
    \/ WebFetchFails /\ UNCHANGED << earlierVars, readVars, shellVars, writeVars >>

\* The two handlers that return a range of a longer content: read_file and
\* web_fetch
SpecPaging == InitPaging /\ [][NextPaging]_vars

(***************************************************************************)
(* Properties of ReadManyFilesToolInvocation.execute                       *)
(***************************************************************************)

\* How many times the string t occurs in the string s
Occurrences(s, t) ==
    Cardinality({i \in 1..(Len(s) - Len(t) + 1) : SubSeq(s, i, i + Len(t) - 1) = t})

\* execute has returned its content (not the search error)
Returned == pc = "done" /\ returned.errorType = "none"

\* The distinct paths the matcher has returned
MatchedPaths == UNION {Range(matched[k]) : k \in 1..Len(matched)}

\* The matched paths that lie outside every workspace root
RejectedPaths == {p \in MatchedPaths : ~isPathWithinWorkspace(p)}

\* The skip records of single files, and those that count ignored files
IsAggregateSkip(record) ==
    record.reason \in {<< "git ignored" >>, << "gemini ignored" >>}

\* C1: a path the matcher returns that is outside every workspace root never
\* becomes a candidate, is never handed to detectFileType or to
\* processSingleFileContent, is never in the processed list or in a content
\* part, and once the entries have been checked has exactly one skip record,
\* whose reason starts with "Security:".
C1_OutsidePathRejected ==
    \A p \in RejectedPaths :
        /\ ~arrayIncludes(filesToConsider, p)
        /\ ~arrayIncludes(sortedFiles, p)
        /\ p \notin detectCalls \cup readCalls
        /\ ~arrayIncludes(processedFilesRelativePaths, p)
        /\ ~arrayIncludes(processedFilesRelativePaths, relative(targetDir, p))
        /\ \A k \in 1..Len(contentParts) : ~includes(contentParts[k].text, p)
        /\ \A k \in 1..Len(returned.llmContent) :
              ~includes(returned.llmContent[k].text, p)
        /\ (pc \in {"fetch", "done"} /\ ~globFailed) =>
              /\ Cardinality({i \in 1..Len(skippedFiles) :
                                 skippedFiles[i].path = p}) = 1
              /\ \A i \in 1..Len(skippedFiles) :
                    skippedFiles[i].path = p =>
                        skippedFiles[i].reason[1] = SecurityReasonText

\* C1 witness: execute returned content after the matcher returned both a
\* path outside the workspace and files that were processed.
C1_Witness ==
    /\ Returned
    /\ RejectedPaths # {}
    /\ Len(processedFilesRelativePaths) >= 1

\* C2 as stated: neither the content nor the display of the result contains
\* a path the security check rejected.
C2_NoRejectedPathInOutput ==
    Returned =>
        \A p \in RejectedPaths :
            /\ \A k \in 1..Len(returned.llmContent) :
                  ~includes(returned.llmContent[k].text, p)
            /\ ~includes(returned.returnDisplay, p)

\* The skip records the display lists
ListedSkips == Take(skippedFiles, MaxListedSkipped)

\* C2 as amended: the content never contains a rejected path, and the display
\* contains it only in the line of that path's "Security:" skip record (its
\* path and its reason, when the record is among the first five listed), never
\* as a processed file.
C2_RejectedPathOnlyInSkipLine ==
    Returned =>
        \A p \in RejectedPaths :
            /\ \A k \in 1..Len(returned.llmContent) :
                  ~includes(returned.llmContent[k].text, p)
            /\ ~includes(returned.returnDisplay, relative(targetDir, p))
            /\ Occurrences(returned.returnDisplay, p) =
                  2 * Cardinality({i \in 1..Len(ListedSkips) :
                        /\ ListedSkips[i].path = p
                        /\ ListedSkips[i].reason = << SecurityReasonText >> \o p})

\* C2 witness: content was returned, a path was rejected and files were
\* processed and listed.
C2_Witness ==
    /\ Returned
    /\ \E p \in RejectedPaths : includes(returned.returnDisplay, p)
    /\ Len(processedFilesRelativePaths) >= 2

\* C3: the processed list is strictly increasing in the order of the absolute
\* paths, so that no file is in it twice.
C3_ProcessedStrictlySorted ==
    pc = "done" =>
        \A i, j \in 1..Len(processedFilesRelativePaths) :
            i < j => StrLess(resolve(targetDir, processedFilesRelativePaths[i]),
                             resolve(targetDir, processedFilesRelativePaths[j]))

\* C3 witness: two roots both matched FileB, the matcher's order was not the
\* sorted one, and FileB was processed with another file.
C3_Witness ==
    /\ Returned
    /\ Len(matched) = 2
    /\ arrayIncludes(matched[1], FileB)
    /\ arrayIncludes(matched[2], FileB)
    /\ filesToConsider # sortedFiles
    /\ Len(processedFilesRelativePaths) >= 2
    /\ arrayIncludes(processedFilesRelativePaths, relative(targetDir, FileB))

\* How many processed entries and single-file skip records name the path p
Mentions(p) ==
    Cardinality({i \in 1..Len(processedFilesRelativePaths) :
                    processedFilesRelativePaths[i] = relative(targetDir, p)})
    + Cardinality({i \in 1..Len(skippedFiles) :
                    skippedFiles[i].path \in {p, relative(targetDir, p)}})

\* C4: when execute returns content, every distinct matched path is
\* accounted for once: the matched paths are as many as the processed files,
\* the single-file skip records, the git-ignored count and the gemini-ignored
\* count together, and no path is named twice.
C4_EveryMatchAccountedOnce ==
    Returned =>
        /\ Cardinality(MatchedPaths) =
              Len(processedFilesRelativePaths)
              + Cardinality({i \in 1..Len(skippedFiles) :
                                ~IsAggregateSkip(skippedFiles[i])})
              + gitIgnoredCount + geminiIgnoredCount
        /\ \A p \in MatchedPaths : Mentions(p) <= 1
        /\ \A i \in 1..Len(processedFilesRelativePaths) :
              resolve(targetDir, processedFilesRelativePaths[i]) \in MatchedPaths

\* C4 witness: one call with a processed file, a file skipped on its own, a
\* git-ignored file and a gemini-ignored file.
C4_Witness ==
    /\ Returned
    /\ Len(processedFilesRelativePaths) >= 1
    /\ gitIgnoredCount + geminiIgnoredCount >= 1
    /\ \E i \in 1..Len(skippedFiles) : ~IsAggregateSkip(skippedFiles[i])
    /\ \E k \in 1..Len(matched) : Len(matched[k]) >= 2

\* The value the task of the file f settled with
OutcomeOf(f) == CHOOSE r \in Range(results) : r.filePath = f

\* What execute returns when the candidates' outcomes are taken in the sorted
\* order of the candidates' paths
ExpectedCollection ==
    LET sorted == sort(filesToConsider)
    IN  CollectResults([i \in 1..Len(sorted) |-> OutcomeOf(sorted[i])],
            [skippedFiles |-> Discovery(allEntries, fileFilteringOptions).skippedFiles,
             contentParts |-> << >>,
             processedFilesRelativePaths |-> << >>])

\* C5: the content, the processed list and the skip ledger are determined by
\* the candidates and their outcomes alone: they are what the outcomes give
\* when taken in sorted path order, in whatever order the tasks settled.
C5_CompletionOrderIrrelevant ==
    Returned =>
        /\ returned.llmContent =
              Append(ExpectedCollection.contentParts,
                     LastPart(ExpectedCollection.contentParts))
        /\ processedFilesRelativePaths =
              ExpectedCollection.processedFilesRelativePaths
        /\ skippedFiles = ExpectedCollection.skippedFiles

\* C5 witness: tasks settled out of the sorted order and two files were
\* processed.
C5_Witness ==
    /\ Returned
    /\ settledOutOfOrder
    /\ Len(processedFilesRelativePaths) >= 2

\* A task's value is a failed read or classification
IsFetchFailure(result) ==
    /\ result.status = "fulfilled"
    /\ ~result.success
    /\ result.reason[1] \in {"Read error: ", "Unexpected error: "}

\* C6: once a task has settled the call does not return the error result;
\* and in the returned content every candidate has its own outcome whatever
\* the others did: a candidate that was read is in the processed list once
\* with the content part of its own read and has no skip record, a candidate
\* that was not read has exactly one skip record, with its relative path and
\* its reason, and is not processed.
C6_FailureIsolated ==
    /\ (\E i \in 1..Len(taskPc) : taskPc[i] = "settled") =>
          returned.errorType = "none"
    /\ Returned =>
          \A i \in 1..Len(sortedFiles) :
              LET f == sortedFiles[i]
                  rel == relative(targetDir, f)
                  skips == {k \in 1..Len(skippedFiles) : skippedFiles[k].path = rel}
                  listed == {k \in 1..Len(processedFilesRelativePaths) :
                                processedFilesRelativePaths[k] = rel}
              IN  IF results[i].success
                  THEN /\ Cardinality(listed) = 1
                       /\ skips = {}
                       /\ arrayIncludes(returned.llmContent,
                                        ContentPart(Success(f, ReadResult(f))))
                  ELSE /\ Cardinality(skips) = 1
                       /\ listed = {}
                       /\ results[i].reason # << >>
                       /\ \A k \in skips :
                             skippedFiles[k].reason = results[i].reason

\* C6 witness: a read failed, a classification failed, and a file later in
\* the order was processed.
C6_Witness ==
    /\ Returned
    /\ \E i, j, k \in 1..Len(sortedFiles) :
          /\ i < k /\ j < k
          /\ IsFetchFailure(results[i])
          /\ results[i].reason[1] = "Read error: "
          /\ IsFetchFailure(results[j])
          /\ results[j].reason[1] = "Unexpected error: "
          /\ results[k].success

\* C7: the result is the search error exactly when a matcher call has
\* rejected; then the call is over, no later root was searched and no call
\* was made twice, nothing was filtered, classified or read, and the result
\* holds the error alone; a call that ends otherwise returns its content.
C7_SearchErrorIffMatcherFails ==
    /\ returned.errorType \in {"none", "READ_MANY_FILES_SEARCH_ERROR"}
    /\ returned.errorType = "READ_MANY_FILES_SEARCH_ERROR" <=> globFailed
    /\ globFailed =>
          /\ pc = "done"
          /\ Len(globCalls) = Len(matched) + 1
          /\ globCalls = SubSeq(workspaceDirs, 1, Len(globCalls))
          /\ filterCalls = {} /\ detectCalls = {} /\ readCalls = {}
          /\ sortedFiles = << >> /\ skippedFiles = << >>
          /\ contentParts = << >> /\ processedFilesRelativePaths = << >>
          /\ ~returned.llmContentIsArray
          /\ Len(returned.llmContent) = 1
          /\ returned.llmContent[1].text =
                << "Error during file search: " >> \o GlobErrorMessage
    /\ (pc = "done" /\ ~globFailed) =>
          /\ returned.llmContentIsArray
          /\ Len(globCalls) = Len(workspaceDirs)

\* C7 witness: the first root matched files and the call for the second root
\* rejected.
C7_Witness ==
    /\ pc = "done"
    /\ globFailed
    /\ Len(matched) = 1
    /\ Len(matched[1]) >= 2

\* The file's extension is in one of the patterns, whatever the case of the
\* letters, or its name without the extension is
NamedBy(filePath, patterns) ==
    \E i \in 1..Len(patterns) :
        \/ includes(toLowerCase(patterns[i]), toLowerCase(extname(filePath)))
        \/ includes(patterns[i], basename(filePath, extname(filePath)))

\* C8: a candidate that is an image or a pdf is read and processed only if a
\* pattern of paths names its extension or its name; one that no pattern
\* names is never read, is not processed, has no content part, and has a skip
\* record saying it was not explicitly requested.
C8_AssetOnlyIfNamed ==
    \A i \in 1..Len(sortedFiles) :
        LET f == sortedFiles[i]
            rel == relative(targetDir, f)
        IN  detectFileType(f) \in {"image", "pdf"} =>
              /\ (f \in readCalls \/ results[i].success) =>
                    NamedBy(f, inputPatterns)
              /\ ~NamedBy(f, inputPatterns) =>
                    /\ f \notin readCalls
                    /\ ~arrayIncludes(processedFilesRelativePaths, rel)
                    /\ \A k \in 1..Len(contentParts) :
                          contentParts[k].text # FileData(f)
                    /\ taskPc[i] = "settled" =>
                          results[i].reason \in
                              {<< AssetReasonText >>,
                               << "Unexpected error: " >> \o ThrownMessage}
                    /\ (Returned /\ results[i].reason = << AssetReasonText >>) =>
                          \E k \in 1..Len(skippedFiles) :
                              /\ skippedFiles[k].path = rel
                              /\ skippedFiles[k].reason = << AssetReasonText >>

\* C8 witness: in one call an image no pattern names was skipped and a pdf a
\* pattern names was processed.
C8_Witness ==
    /\ Returned
    /\ \E i, j \in 1..Len(sortedFiles) :
          /\ detectFileType(sortedFiles[i]) = "image"
          /\ ~NamedBy(sortedFiles[i], inputPatterns)
          /\ results[i].reason = << AssetReasonText >>
          /\ detectFileType(sortedFiles[j]) = "pdf"
          /\ results[j].success

\* The file's extension is in one of the patterns, whatever the case
ExtensionIn(filePath, patterns) ==
    \E i \in 1..Len(patterns) :
        includes(toLowerCase(patterns[i]), toLowerCase(extname(filePath)))

\* C9: an image or pdf whose extension is in a pattern of paths is never
\* skipped as an asset that was not requested; when its read succeeds it is
\* in the processed list and its data is a content part of its own, without
\* separator and without truncation warning.
C9_NamedAssetProcessedRaw ==
    \A i \in 1..Len(sortedFiles) :
        LET f == sortedFiles[i]
            rel == relative(targetDir, f)
        IN  (/\ detectFileType(f) \in {"image", "pdf"}
             /\ ExtensionIn(f, inputPatterns)) =>
              /\ results[i].reason # << AssetReasonText >>
              /\ (Returned /\ results[i].success) =>
                    /\ arrayIncludes(processedFilesRelativePaths, rel)
                    /\ \A k \in 1..Len(skippedFiles) : skippedFiles[k].path # rel
                    /\ arrayIncludes(returned.llmContent,
                                     [isString |-> FALSE, text |-> FileData(f)])
                    /\ \A k \in 1..Len(returned.llmContent) :
                          returned.llmContent[k].isString =>
                              /\ ~includes(returned.llmContent[k].text, Separator(f))
                              /\ ~includes(returned.llmContent[k].text, FileData(f))

\* C9 witness: the image Logo.PNG was matched, paths holds "*.PNG", and the
\* image was processed.
C9_Witness ==
    /\ Returned
    /\ \E i \in 1..Len(sortedFiles) :
          /\ sortedFiles[i] = FileLogo
          /\ ExtensionIn(FileLogo, inputPatterns)
          /\ results[i].success
    /\ Len(processedFilesRelativePaths) >= 2

(***************************************************************************)
(* Properties of the read_many_files handler of read-many-files.tool.js    *)
(***************************************************************************)

\* The handler has returned.
ToolReturned == toolPc = "done"

\* The lines of a file, counted as the handler counts them
LinesOf(filePath) == SplitLines(readFileSync(filePath), << >>)

\* The first n lines of a file, joined by newlines
FirstLines(filePath, n) == JoinLines(SubSeq(LinesOf(filePath), 1, n))

\* C10: for every text file the handler emits and every max_lines_per_file:
\* if the file has more lines than the limit, the emitted content is exactly
\* the first `limit` lines and a banner stating the shown count (the limit)
\* and the total line count follows it; otherwise the whole content is
\* emitted and there is no banner.
C10_TruncationLaw ==
    ToolReturned =>
        \A k \in 1..Len(toolBlocks) :
            LET b == toolBlocks[k]
                total == Len(LinesOf(b.filePath))
            IN  IF total > max_lines_per_file
                THEN /\ b.fileContent = FirstLines(b.filePath, max_lines_per_file)
                     /\ arrayIncludes(b.banner, ToString(max_lines_per_file))
                     /\ arrayIncludes(b.banner, ToString(total))
                ELSE /\ b.fileContent = readFileSync(b.filePath)
                     /\ b.banner = << >>

\* The part that closes the content of a call that read something, and the
\* only part of a call that read nothing
TerminatorPart == [isString |-> TRUE, text |-> << DEFAULT_OUTPUT_TERMINATOR >>]
SentinelPart == [isString |-> TRUE, text |-> << NoFilesText >>]

\* C11: when execute returns content, its last part is the terminator
\* "\n--- End of content ---" if and only if at least one file was processed,
\* and then the terminator comes once, after one part per processed file; when
\* no file was processed the content is exactly one part, the sentinel "No
\* files matching the criteria were found or all were skipped.", and the
\* display lists no processed file and says that none was read.
C11_TerminatorIffProcessed ==
    Returned =>
        LET parts == returned.llmContent
            P == Len(processedFilesRelativePaths)
        IN  /\ Len(parts) >= 1
            /\ (parts[Len(parts)] = TerminatorPart) <=> (P >= 1)
            /\ P >= 1 =>
                  /\ Len(parts) = P + 1
                  /\ \A k \in 1..P : parts[k] # TerminatorPart
                  /\ SentinelPart \notin Range(parts)
            /\ P = 0 =>
                  /\ parts = << SentinelPart >>
                  /\ ~arrayIncludes(returned.returnDisplay, "**Processed Files:**")
                  /\ ~arrayIncludes(returned.returnDisplay,
                         "Successfully read and concatenated content from **")
                  /\ arrayIncludes(returned.returnDisplay, NoneReadText)

\* Every match of a call was skipped, for three different reasons, and
\* nothing was read.
C11_Witness ==
    /\ Returned
    /\ Len(processedFilesRelativePaths) = 0
    /\ Len(skippedFiles) >= 3
    /\ returned.llmContent = << SentinelPart >>

\* The content parts that start with the separator naming the path p
BlocksNaming(p) ==
    LET head == << "--- " >> \o p \o << " ---" >>
    IN  {k \in 1..Len(returned.llmContent) :
            /\ returned.llmContent[k].isString
            /\ Len(returned.llmContent[k].text) >= Len(head)
            /\ SubSeq(returned.llmContent[k].text, 1, Len(head)) = head}

\* C12: when execute returns content, every text file that was read has
\* exactly one content part that starts with the separator "--- P ---", P
\* being the file's path relative to the target directory, the path the
\* display lists for it, and that part holds the file's content.
C12_SeparatorNamesRelativePath ==
    Returned =>
        \A i \in 1..Len(results) :
            (results[i].success /\ results[i].fileReadResult.llmContentIsString) =>
                LET P == relative(targetDir, results[i].filePath)
                IN  /\ arrayIncludes(processedFilesRelativePaths, P)
                    /\ Cardinality(BlocksNaming(P)) = 1
                    /\ \A k \in BlocksNaming(P) :
                          includes(returned.llmContent[k].text,
                                   results[i].fileReadResult.llmContent)

\* The display line that lists the path p, without its line end
DisplayLine(p) == << "- ", Tick >> \o p \o << Tick >>

\* The processed files, and the skip records, that have a line in the display
ListedProcessed ==
    {i \in 1..Len(processedFilesRelativePaths) :
        includes(returned.returnDisplay,
                 DisplayLine(processedFilesRelativePaths[i]))}
ListedSkipped ==
    {i \in 1..Len(skippedFiles) :
        includes(returned.returnDisplay,
                 DisplayLine(skippedFiles[i].path) \o << " (Reason: " >>
                 \o skippedFiles[i].reason \o << ")" >>)}

\* The "...and n more." line
MoreLine(n) == << "- ...and ", ToString(n), " more." >>

\* C13: with P processed files and S skip records, the display lists all P
\* paths when P <= 10 and otherwise the first 10 followed at once by "...and
\* P-10 more."; it lists all S records when S <= 5 and otherwise the first 5
\* followed at once by "...and S-5 more."; the counts it states are P and S;
\* and the entries listed plus the number of the "more" line make the total.
C13_DisplayBounded ==
    Returned =>
        LET disp == returned.returnDisplay
            proc == processedFilesRelativePaths
            P == Len(proc)
            S == Len(skippedFiles)
            moreP == IF P > MaxListedProcessed THEN P - MaxListedProcessed ELSE 0
            moreS == IF S > MaxListedSkipped THEN S - MaxListedSkipped ELSE 0
        IN  /\ ListedProcessed = 1..(P - moreP)
            /\ ListedSkipped = 1..(S - moreS)
            /\ Cardinality(ListedProcessed) + moreP = P
            /\ Cardinality(ListedSkipped) + moreS = S
            /\ Occurrences(disp, << "- ...and " >>) =
                  (IF moreP > 0 THEN 1 ELSE 0) + (IF moreS > 0 THEN 1 ELSE 0)
            /\ moreP > 0 =>
                  includes(disp, DisplayLine(proc[MaxListedProcessed])
                                 \o << "\n" >> \o MoreLine(moreP))
            /\ moreS > 0 =>
                  includes(disp, << ")", "\n" >> \o MoreLine(moreS))
            /\ P > 0 =>
                  includes(disp, << "Successfully read and concatenated content from **",
                                    ToString(P), " file(s)**." >>)
            /\ S > 0 =>
                  /\ Occurrences(disp, << "**Skipped " >>) = 1
                  /\ includes(disp, << "**Skipped ", ToString(S) >>)

\* A call with more than ten processed files and more than five skip records
\* has returned.
C13_Witness ==
    /\ Returned
    /\ Len(processedFilesRelativePaths) > MaxListedProcessed
    /\ Len(skippedFiles) > MaxListedSkipped

\* The entries have been filtered and checked (lines 117-175 have run).
Discovered == pc = "fetch" \/ Returned

\* The matches inside the workspace; those of them the VCS-ignore predicate
\* removes when it is enabled; and those of the rest the tool-ignore
\* predicate removes when it is enabled
InWorkspaceMatches == MatchedPaths \ RejectedPaths
GitRemoved ==
    {p \in InWorkspaceMatches :
        /\ fileFilteringOptions.respectGitIgnore
        /\ relative(targetDir, p) \in GitIgnoredPaths}
GeminiRemoved ==
    {p \in InWorkspaceMatches \ GitRemoved :
        /\ fileFilteringOptions.respectGeminiIgnore
        /\ relative(targetDir, p) \in GeminiIgnoredPaths}

\* The skip records with the given reason
RecordsWithReason(reason) ==
    {i \in 1..Len(skippedFiles) : skippedFiles[i].reason = << reason >>}

\* C14: once the entries are checked, the skip ledger has at most one "git
\* ignored" and at most one "gemini ignored" record, each there exactly when
\* its count is positive and stating that count; the git count is the number
\* of in-workspace matches the VCS-ignore predicate removed, and the gemini
\* count is the number of in-workspace matches that passed the VCS-ignore
\* layer and that the tool-ignore predicate removed, so a path both layers
\* reject is counted once, as git ignored.
C14_IgnoredCountedOncePerLayer ==
    Discovered =>
        /\ gitIgnoredCount = Cardinality(GitRemoved)
        /\ geminiIgnoredCount = Cardinality(GeminiRemoved)
        /\ Cardinality(RecordsWithReason("git ignored")) =
              (IF gitIgnoredCount > 0 THEN 1 ELSE 0)
        /\ Cardinality(RecordsWithReason("gemini ignored")) =
              (IF geminiIgnoredCount > 0 THEN 1 ELSE 0)
        /\ \A i \in RecordsWithReason("git ignored") :
              skippedFiles[i].path = << ToString(gitIgnoredCount), " file(s)" >>
        /\ \A i \in RecordsWithReason("gemini ignored") :
              skippedFiles[i].path = << ToString(geminiIgnoredCount), " file(s)" >>

\* Both layers are enabled, a file both reject and a file only the tool-ignore
\* layer rejects were matched, and each count is one.
C14_Witness ==
    /\ Returned
    /\ fileFilteringOptions.respectGitIgnore
    /\ fileFilteringOptions.respectGeminiIgnore
    /\ {FileG, FileM} \subseteq MatchedPaths
    /\ gitIgnoredCount = 1
    /\ geminiIgnoredCount = 1

\* C15: once the entries are checked, a match inside the workspace is a
\* candidate exactly when every enabled ignore layer keeps it; a layer whose
\* option is false removes nothing and counts nothing, whatever the other
\* option is, and with both options false filterFiles is not called.
C15_CandidateIffEnabledLayersKeep ==
    Discovered =>
        /\ \A p \in InWorkspaceMatches :
              arrayIncludes(filesToConsider, p) <=>
                 /\ fileFilteringOptions.respectGitIgnore =>
                       relative(targetDir, p) \notin GitIgnoredPaths
                 /\ fileFilteringOptions.respectGeminiIgnore =>
                       relative(targetDir, p) \notin GeminiIgnoredPaths
        /\ Range(filesToConsider) \subseteq InWorkspaceMatches
        /\ ~fileFilteringOptions.respectGitIgnore =>
              /\ gitIgnoredCount = 0
              /\ RecordsWithReason("git ignored") = {}
        /\ ~fileFilteringOptions.respectGeminiIgnore =>
              /\ geminiIgnoredCount = 0
              /\ RecordsWithReason("gemini ignored") = {}
        /\ (~fileFilteringOptions.respectGitIgnore
            /\ ~fileFilteringOptions.respectGeminiIgnore) => filterCalls = {}

\* Only the tool-ignore layer is enabled: a matched file that both layers
\* would reject is counted as gemini ignored, and another matched file is a
\* candidate.
C15_Witness ==
    /\ Discovered
    /\ ~fileFilteringOptions.respectGitIgnore
    /\ fileFilteringOptions.respectGeminiIgnore
    /\ {FileG, FileA} \subseteq MatchedPaths
    /\ geminiIgnoredCount = 1
    /\ arrayIncludes(filesToConsider, FileA)

\* Every file the matcher could find from some root
AllFiles ==
    UNION {Range(MatcherListing(workspaceDirs[d])) : d \in 1..Len(workspaceDirs)}

\* The ignore list the call's parameters ask for
RequestedIgnore ==
    IF useDefaultExcludes THEN ConfiguredExcludes \o exclude ELSE exclude

\* The files that list removes from the result of every root that has them
ExcludedFiles ==
    {f \in AllFiles :
        \A d \in 1..Len(workspaceDirs) :
            f \in Range(MatcherListing(workspaceDirs[d])) =>
                IsIgnored(workspaceDirs[d], RequestedIgnore, f)}

PermutedCalls ==
    LET all == inputPatterns \o include
        n == Len(all)
    IN  { [paths |-> [i \in 1..k |-> all[f[i]]],
           include |-> [i \in 1..(n - k) |-> all[f[k + i]]]] :
            f \in Permutations(1..n), k \in 1..n }

\* No read of this call failed: every task was skipped as an asset that was
\* not requested, or read its file.
EveryReadSucceeded ==
    \A i \in 1..Len(results) :
        results[i].success \/ results[i].reason = << AssetReasonText >>

\* What the task of the file f settles with on the same file system when the
\* call's paths are the given patterns
OutcomeUnder(f, patterns) ==
    IF IsUnrequestedAsset(f, patterns) THEN Failure(f, << AssetReasonText >>)
    ELSE Success(f, ReadResult(f))

\* What execute collects from the same matches when its paths are the given
\* patterns
CollectionUnder(patterns) ==
    CollectResults([i \in 1..Len(sortedFiles) |->
                        OutcomeUnder(sortedFiles[i], patterns)],
        [skippedFiles |-> Discovery(allEntries, fileFilteringOptions).skippedFiles,
         contentParts |-> << >>,
         processedFilesRelativePaths |-> << >>])

\* C17: a call whose reads all succeed returns the processed list and the
\* content that every call returns whose pattern sequence, paths followed by
\* include, is a permutation of its own, on the same file system.
C17_PatternOrderIrrelevant ==
    (Returned /\ EveryReadSucceeded) =>
        \A c \in PermutedCalls :
            LET other == CollectionUnder(c.paths)
            IN  /\ other.processedFilesRelativePaths = processedFilesRelativePaths
                /\ Append(other.contentParts, LastPart(other.contentParts))
                      = returned.llmContent

\* C18: the VCS-ignore and tool-ignore predicates are only ever handed paths
\* that pass the security check: no path handed to filterFiles is the
\* target-relative form of a match that lies outside every workspace root.
C18_IgnoreLayersSeeOnlyCheckedPaths ==
    \A p \in RejectedPaths : relative(targetDir, p) \notin filterCalls

\* C19: once the cancellation signal has fired while the per-file tasks run,
\* no read that has not started is started, and a task that already holds
\* content keeps it and has it in the result that is returned.
C19_CancellationStopsNewReads ==
    [][(aborted /\ pc = "fetch") =>
          /\ readCalls' = readCalls
          /\ \A i \in 1..Len(results) :
                results[i].success =>
                    /\ results'[i] = results[i]
                    /\ pc' = "done" =>
                          arrayIncludes(processedFilesRelativePaths',
                                        results[i].relativePathForDisplay)]_vars

(***************************************************************************)
(* Properties of the read_many_files handler of part_001                   *)
(***************************************************************************)

\* C20: every descriptor opened for the bounded read of an oversized file is
\* closed before the handler moves on to the next file, whether the read
\* succeeded or failed: between two files of the loop, and after the handler
\* has returned, no descriptor is open.
C20_DescriptorsClosed ==
    partPc \in {"loop", "done"} => openDescriptors = {}

(***************************************************************************)
(* Properties of the read_file handler of read-file.tool.js                *)
(***************************************************************************)

\* The client started at offset 0 with a limit of at least 1 and has followed
\* the advertised offsets since.
PagingFromStart ==
    /\ readPages # << >>
    /\ readPages[1].offset = Given(0)
    /\ readLimit # undefined
    /\ readLimit[1] >= 1

\* C21: on a file of N lines, a client that starts at offset 0 with a limit
\* of at least 1 and follows the advertised offsets gets pages that tile the
\* file: the first starts at line 0, each next one starts at the line after
\* the end of the one before, each holds exactly the lines of its range and at
\* least one of them, every page but the last reports truncation, a page that
\* reports none ends at line N-1, and no more than N pages are ever fetched.
C21_PagesTileTheFile ==
    PagingFromStart =>
        LET lines == ReadFileLines[absolute_path]
            n == Len(readPages)
        IN  /\ n <= Len(lines)
            /\ \A i \in 1..n :
                  LET page == readPages[i]
                  IN  /\ page.startLine = (IF i = 1 THEN 0
                                           ELSE readPages[i - 1].endLine + 1)
                      /\ page.endLine >= page.startLine
                      /\ page.endLine <= Len(lines) - 1
                      /\ page.content =
                            join(SubSeq(lines, page.startLine + 1, page.endLine + 1))
                      /\ i < n => page.isTruncated
                      /\ ~page.isTruncated => page.endLine = Len(lines) - 1

\* The five-line file has been read to its end in three pages of two lines.
C21_Witness ==
    /\ PagingFromStart
    /\ absolute_path = ReadFileMedium
    /\ readLimit = Given(2)
    /\ readPc = "done"
    /\ Len(readPages) = 3
    /\ ~readPages[3].isTruncated

(***************************************************************************)
(* Properties of the run_shell_command handler of part_002                 *)
(***************************************************************************)

\* The handler has returned a result.
ShellReturned == shellPc = "done"

\* Whenever a kill signal was sent, the result reports the timeout.
KilledReportsTimeout ==
    (ShellReturned /\ signalsSent # << >>) =>
        shellText[Len(shellText)] = "Status: TIMEOUT"

\* When the child closed before the timeout elapsed, the timer is cleared and
\* no signal was sent.
ClosedFirstSendsNothing ==
    (ShellReturned /\ ~isTimedOut) => (~timeoutArmed /\ signalsSent = << >>)

\* C22: run_shell_command always eventually returns a result, and only one: a
\* child that still runs when the timeout elapses is terminated (SIGTERM,
\* then SIGKILL if it has not ended) and the result then reports
\* 'Status: TIMEOUT'; when the child closes first, the timer is cleared and no
\* kill signal is ever sent.
C22_ShellCommandAlwaysReturns ==
    /\ <>ShellReturned
    /\ [](resolveCalls <= 1)
    /\ []KilledReportsTimeout
    /\ []ClosedFirstSendsNothing

(***************************************************************************)
(* Properties of the write_file handler of part_002                        *)
(***************************************************************************)

\* What the last call returned
LastWriteOutcome == writeOutcomes[Len(writeOutcomes)]

\* The path of the last call existed, as a file or a directory, before it.
ExistedBefore == file_path \in DOMAIN fsBefore[1] \/ file_path \in fsBefore[2]

\* A call without overwrite on a path that exists returns the 'File already
\* exists' error and leaves every file and directory as it was.
ExistingPathRefused ==
    (writeOutcomes # << >> /\ overwrite # Given(TRUE) /\ ExistedBefore) =>
        /\ LastWriteOutcome = "exists"
        /\ writeText = << "Error: File already exists at " >> \o file_path
                       \o << ". Set overwrite=true to overwrite it." >>
        /\ << fsFiles, fsDirs >> = fsBefore

\* C23 as stated: after any sequence of write_file calls, a call without
\* overwrite on a path that exists returns the 'File already exists' error
\* and changes nothing, and a call that reports success leaves the content of
\* the file equal to the content argument of the call.
C23_SuccessLeavesContent ==
    /\ ExistingPathRefused
    /\ (writeOutcomes # << >> /\ LastWriteOutcome = "success") =>
          fsFiles[file_path] = writeContent

\* C23, amended: after any sequence of write_file calls, a call without
\* overwrite on a path that exists returns the 'File already exists' error
\* and changes nothing, and a call that reports success leaves in the file the
\* content argument of the call with every lone surrogate replaced by U+FFFD,
\* which is the content argument itself when it holds no lone surrogate.
C23_SuccessLeavesEncodedContent ==
    /\ ExistingPathRefused
    /\ (writeOutcomes # << >> /\ LastWriteOutcome = "success") =>
          /\ Len(fsFiles[file_path]) = Len(writeContent)
          /\ \A i \in 1..Len(writeContent) :
                fsFiles[file_path][i] =
                    IF writeContent[i] = LoneSurrogate THEN ReplacementCharacter
                    ELSE writeContent[i]

\* A call without overwrite was refused on a path that exists, and the next
\* call, with overwrite, replaced the content of a file.
C23_Witness ==
    /\ writeOutcomes = << "exists", "success" >>
    /\ overwrite = Given(TRUE)
    /\ file_path \in DOMAIN fsBefore[1]
    /\ writeContent = << "a" >>
    /\ fsBefore[1][file_path] # writeContent

(***************************************************************************)
(* Properties of the phases of ReadManyFilesToolInvocation.execute         *)
(***************************************************************************)

\* A per-file task has started: a file was handed to detectFileType or to
\* processSingleFileContent.
SomeTaskStarted == detectCalls # {} \/ readCalls # {}

\* The records the discovery phase made: security rejections and ignore counts
DiscoverySkips == Discovery(allEntries, fileFilteringOptions).skippedFiles

\* C24: execute runs in strict phases. The matcher is called once per
\* workspace root, one root after another in the order of the roots, the call
\* for a root being made only when the one before has resolved; no per-file
\* task starts before every root has been searched and the filtering has
\* produced the candidates; nothing is assembled while the tasks run; and when
\* execute returns a result every task has settled and there is exactly one
\* outcome per candidate, at the candidate's index: as many outcomes as
\* candidates, each either among the processed files or among the skip records
\* added after discovery.
C24_StrictPhases ==
    /\ globCalls = SubSeq(workspaceDirs, 1, Len(globCalls))
    /\ pc = "glob" => /\ Len(globCalls) = dirIndex
                      /\ Len(matched) = dirIndex - 1
    /\ SomeTaskStarted =>
          /\ pc \in {"fetch", "done"}
          /\ globCalls = workspaceDirs
          /\ Len(matched) = Len(workspaceDirs)
          /\ filesToConsider =
                Discovery(allEntries, fileFilteringOptions).filesToConsider
          /\ detectCalls = Range(sortedFiles)
          /\ readCalls \subseteq detectCalls
    /\ pc = "fetch" =>
          /\ contentParts = << >>
          /\ processedFilesRelativePaths = << >>
          /\ skippedFiles = DiscoverySkips
    /\ Returned =>
          /\ EveryTaskSettled
          /\ Len(results) = Len(sortedFiles)
          /\ Len(sortedFiles) = Len(filesToConsider)
          /\ \A i \in 1..Len(results) :
                /\ results[i].status = "fulfilled"
                /\ results[i].filePath = sortedFiles[i]
          /\ Len(processedFilesRelativePaths)
                + (Len(skippedFiles) - Len(DiscoverySkips))
             = Len(sortedFiles)

\* execute has returned after searching both roots and running three tasks,
\* of which one settled before an earlier one, one was read and one skipped.
C24_Witness ==
    /\ Returned
    /\ Len(globCalls) = 2
    /\ Len(sortedFiles) >= 3
    /\ settledOutOfOrder
    /\ \E i, j \in 1..Len(results) : results[i].success /\ ~results[j].success

(***************************************************************************)
(* Properties of the file types of the read_many_files handler of part_001 *)
(***************************************************************************)

\* The loop has dealt with the i-th file to process.
PartHandled(i) == partPc \in {"loop", "done"} /\ i < fileIndex

\* A file without a text extension that no pattern names
UnnamedNonText(filePath) ==
    ~isTextFile(filePath) /\ ~explicitlyRequested(filePath, partPatterns)

\* C25: a matched file whose extension is not a text extension and which no
\* pattern names by extension or file name is never among the processed files
\* and none of its content is in the results, whatever its size; once the
\* loop has dealt with it, it is in the skipped list, with the 'not explicitly
\* requested' reason unless examining it raised an error.
C25_UnnamedNonTextNeverProcessed ==
    \A i \in 1..Len(filesToProcess) :
        LET filePath == filesToProcess[i]
            relativePath == relative(cwd, filePath)
        IN  (UnnamedNonText(filePath) /\ PartHandled(i)) =>
                /\ relativePath \notin Range(processedFiles)
                /\ PartContent(filePath) \notin Range(partResults)
                /\ slice(PartContent(filePath), max_file_size)
                      \notin Range(partResults)
                /\ \E k \in 1..Len(partSkippedFiles) :
                      /\ partSkippedFiles[k].path = relativePath
                      /\ partSkippedFiles[k].reason \in
                            { << "Binary/non-text file (" >>
                              \o toLowerCase(extname(filePath))
                              \o << ") not explicitly requested" >>,
                              << "Error reading file: " >> \o PartErrorMessage }

(***************************************************************************)
(* Properties of the order and the truncation of the read_many_files       *)
(* handler of read-many-files.tool.js                                      *)
(***************************************************************************)

\* The files the handler emitted a block for, in the order of the blocks
EmittedFiles == [k \in 1..Len(toolBlocks) |-> toolBlocks[k].filePath]

\* C26: which files are read under max_files and the order of their blocks
\* depend on the set of matched paths alone, through its sorted order: the
\* files emitted are among the first max_files paths in sorted order, their
\* blocks come in sorted order, whatever the order in which the matcher
\* returned the paths, and the matches not read because of the limit are the
\* matches minus the files processed or skipped.
C26_SortedOrderDecides ==
    (ToolReturned /\ filePaths # << >>) =>
        /\ Range(EmittedFiles) \subseteq Range(slice(sort(filePaths), max_files))
        /\ \A k, l \in 1..Len(EmittedFiles) :
              k < l => StrLess(EmittedFiles[k], EmittedFiles[l])
        /\ skippedCount =
              Len(filePaths) - (processedCount + Len(toolSkippedFiles))

\* a is a prefix of b and shorter than b.
StrictPrefix(a, b) == Len(a) < Len(b) /\ SubSeq(b, 1, Len(a)) = a

\* C27: for every file the handler emits, the empty file included, and every
\* max_lines_per_file of 0 or more, the file is flagged as truncated (the
\* banner is emitted) if and only if the emitted content is a strict prefix
\* of the content of the file.
C27_FlagIffStrictPrefix ==
    (ToolReturned /\ max_lines_per_file >= 0) =>
        \A k \in 1..Len(toolBlocks) :
            LET b == toolBlocks[k]
            IN  (b.banner # << >>)
                    <=> StrictPrefix(b.fileContent, readFileSync(b.filePath))

(***************************************************************************)
(* Properties of the ranges read_file and web_fetch report                 *)
(***************************************************************************)

\* A truncated page of read_file states the range of the lines it returns and
\* advertises the index of the line after the last one returned.
ReadRangeExact(page) ==
    LET lines == ReadFileLines[absolute_path]
    IN  page.isTruncated =>
            /\ page.content =
                  join(SubSeq(lines, page.startLine + 1, page.endLine + 1))
            /\ page.nextOffset = page.endLine + 1

\* A truncated page of web_fetch states the range of the characters it
\* returns and advertises the index of the character after the last one.
FetchRangeExact(page) ==
    page.isTruncated =>
        /\ page.content = SubSeq(textContent, page.startChar + 1, page.endChar + 1)
        /\ page.nextOffset = page.endChar + 1

\* C28: whenever read_file (lines) or web_fetch (characters) reports
\* truncation, the range its status line states is exactly the range of the
\* items it returned, and the next offset it advertises is the 0-based index
\* of the first item after the last one returned, whether offset and limit are
\* both given, only one of them, or neither.
C28_StatedRangeIsReturnedRange ==
    /\ \A k \in 1..Len(readPages) : ReadRangeExact(readPages[k])
    /\ \A k \in 1..Len(fetchPages) : FetchRangeExact(fetchPages[k])

\* C29: for every offset and limit that are non-negative integers, a
\* response of read_file that reports truncation advertises a next offset
\* greater than the offset the call started from (0 when none was given), so
\* that a client following the advertised offsets keeps moving forward.
C29_AdvertisedOffsetAdvances ==
    \A k \in 1..Len(readPages) :
        LET page == readPages[k]
            started == IF page.offset = undefined THEN 0 ELSE page.offset[1]
        IN  page.isTruncated => page.nextOffset > started

=============================================================================
